---- MODULE Spec2Model ----
(***************************************************************************)
(* Situ browser extension: the background message router with the         *)
(* StorageManager it calls (src/background/background.js,                  *)
(* src/unnamed/part_003), and the content script's highlighter and update  *)
(* batchers (src/content/content.js).                                      *)
(*                                                                         *)
(* Strings are sequences of one-character strings, so that lower-casing,   *)
(* trimming and the regular expression's character indices are computed.   *)
(* An async function is cut at its awaits: one action per piece of code    *)
(* between two awaits.  A chrome.storage.sync get or set takes effect when *)
(* it is issued, and the code after the await runs in a later step, so     *)
(* other handlers may run in between.                                      *)
(***************************************************************************)
EXTENDS Integers, Sequences, FiniteSets, TLC

\* ------------------------------------------------------------------ bounds

MaxReq == 3           \* requests the background worker receives in one run
MaxAddReq == 2        \* the same, in the run of word-form requests
MaxDay == 2           \* calendar dates the run spans
MaxUrl == 2           \* distinct page urls in addRecentlySeen requests

MaxNodes == 2         \* text nodes of the page when the content script starts
MaxChanges == 1       \* text nodes the page adds while the script runs
MaxMessages == 1      \* wordAdded and settingsUpdated messages to the tab
MaxSessions == 2      \* page loads (content-script sessions)

\* ------------------------------------------------------- program constants

MAX_VOCABULARY_SIZE == 1000

HIGHLIGHT_DEBOUNCE_MS == 500
WORD_FLUSH_MS == 2000
STATS_FLUSH_MS == 5000

\* timers count down in ticks of the shortest delay
TickMs == HIGHLIGHT_DEBOUNCE_MS
HighlightDebounce == HIGHLIGHT_DEBOUNCE_MS \div TickMs
WordQuiet == WORD_FLUSH_MS \div TickMs
StatsQuiet == STATS_FLUSH_MS \div TickMs
NoTimer == -1

\* ----------------------------------------------------------------- strings

IsWordChar(c) == c \in {"a", "b", "A", "B"}

LowerChar(c) == IF c = "A" THEN "a" ELSE IF c = "B" THEN "b" ELSE c

ToLowerCase(s) == [i \in 1..Len(s) |-> LowerChar(s[i])]

RECURSIVE TrimStart(_)
TrimStart(s) == IF s # <<>> /\ Head(s) = " " THEN TrimStart(Tail(s)) ELSE s

RECURSIVE TrimEnd(_)
TrimEnd(s) ==
  IF s # <<>> /\ s[Len(s)] = " " THEN TrimEnd(SubSeq(s, 1, Len(s) - 1)) ELSE s

Trim(s) == TrimEnd(TrimStart(s))

\* const v = value; ... : the value is computed once and named
With(value, Rest(_)) == CHOOSE result \in {Rest(v) : v \in {value}} : TRUE

\* the least number of a set that is not empty
Least(S) == CHOOSE p \in S : \A q \in S : p <= q

\* ------------------------------------------------------------------- state

VARIABLES
  storage,      \* chrome.storage.sync: key -> value, a key may be absent
  handlers,     \* handleMessage invocations, in order of arrival
  nextId,       \* source of the unique ids addWord gives out
  today,        \* the calendar date new Date() gives
  tabMessages,  \* settingsUpdated notifications sent to tabs
  page,         \* document.body: its text nodes and markers, document order
  content,      \* the content script's variables (one record)
  outbox,       \* chrome.runtime.sendMessage calls of the content script
  delivered,    \* how many of them the background worker has received
  env,          \* the page's run so far: session, changes, messages
  obs,          \* observations: events queued, markers made, passes run
  ai,           \* AIHelper: its session and the prompts under way
  popup,        \* the prompt popup: session, isProcessing, submit button
  extract,      \* a call of extractSentenceFromNode: arguments and result
  writing       \* writing mode: the page's text fields and the observers

routerVars == <<storage, handlers, nextId, today, tabMessages>>

contentVars == <<page, content, outbox, delivered, env, obs>>

uiVars == <<popup, extract, writing>>

vars == <<storage, handlers, nextId, today, tabMessages,
          page, content, outbox, delivered, env, obs, ai,
          popup, extract, writing>>

STORAGE_KEYS ==
  [VOCABULARY |-> "situ_vocabulary", SETTINGS |-> "situ_settings",
   STATS |-> "situ_stats"]

DEFAULT_SETTINGS == [readingMode |-> TRUE, writingMode |-> TRUE]

NoDays == [d \in {} |-> 0]

EmptyStats ==
  [wordsAdded |-> 0, wordsSeen |-> 0, wordsUsed |-> 0, dailyStats |-> NoDays]

EmptyStorage == [k \in {} |-> 0]

\* result[STORAGE_KEYS.VOCABULARY] || []
GetVocabulary(st) ==
  IF STORAGE_KEYS.VOCABULARY \in DOMAIN st THEN st[STORAGE_KEYS.VOCABULARY]
  ELSE <<>>

\* { ...DEFAULT_SETTINGS, ...result[STORAGE_KEYS.SETTINGS] }
GetSettings(st) ==
  IF STORAGE_KEYS.SETTINGS \in DOMAIN st
  THEN [k \in DOMAIN DEFAULT_SETTINGS |->
          IF k \in DOMAIN st[STORAGE_KEYS.SETTINGS]
          THEN st[STORAGE_KEYS.SETTINGS][k] ELSE DEFAULT_SETTINGS[k]]
  ELSE DEFAULT_SETTINGS

GetStats(st) ==
  IF STORAGE_KEYS.STATS \in DOMAIN st THEN st[STORAGE_KEYS.STATS]
  ELSE EmptyStats

\* chrome.storage.sync.set({ [key]: value })
StorageSet(st, key, value) ==
  [k \in DOMAIN st \cup {key} |-> IF k = key THEN value ELSE st[k]]

\* chrome.storage.sync.remove(keys)
StorageRemove(st, keys) == [k \in DOMAIN st \ keys |-> st[k]]

\* ------------------------------------------------------------- AIHelper

MaxPrompts == 5

NoSession == 0

\* what the browser answers about its LanguageModel: the global is
\* undefined, availability() resolves with one of its four values, or
\* availability() rejects
ModelStates ==
  {"undefined", "unavailable", "downloadable", "downloading", "available",
   "rejects"}

\* checkAvailability that takes a model under download for a usable one
CheckAvailabilityEager(languageModel) ==
  languageModel \in {"available", "downloading"}

\* checkAvailability: true for availability === 'available', false for
\* an undefined LanguageModel, for every other value and in the catch block
CheckAvailability(languageModel) == languageModel = "available"

\* static session = null; static isAvailable = false; no prompt under way;
\* no session created; the browser has the model
InitialAI ==
  [session |-> NoSession, prompts |-> <<>>, created |-> 0,
   isAvailable |-> FALSE, languageModel |-> "available"]

\* prompt() up to the first await of getSession: the session is there and is
\* returned, or LanguageModel.create() is called
StartPrompt(a) ==
  [a EXCEPT !.prompts =
     Append(@, IF a.session # NoSession
               THEN [pc |-> "prompt", session |-> a.session]
               ELSE [pc |-> "create", session |-> NoSession])]

\* a request for one prompt: getDefinition, getExample, getSynonyms, ...
SinglePrompt ==
  /\ Len(ai.prompts) + 1 <= MaxPrompts
  /\ ai' = StartPrompt(ai)
  /\ UNCHANGED <<routerVars, contentVars, uiVars>>

\* enrichWord: Promise.all over getDefinition, getMultipleExamples,
\* getSynonyms and getDifficulty, each started before any of them resumes
EnrichWord ==
  /\ Len(ai.prompts) + 4 <= MaxPrompts
  /\ ai' = StartPrompt(StartPrompt(StartPrompt(StartPrompt(ai))))
  /\ UNCHANGED <<routerVars, contentVars, uiVars>>

\* LanguageModel.create() resolves: this.session = the new session
CreateResolves(i) ==
  /\ ai.prompts[i].pc = "create"
  /\ ai' = [ai EXCEPT !.session = ai.created + 1,
                      !.created = @ + 1,
                      !.prompts[i] = [pc |-> "prompt",
                                      session |-> ai.created + 1]]
  /\ UNCHANGED <<routerVars, contentVars, uiVars>>

\* LanguageModel.create() rejects: getSession returns null and prompt
\* answers { success: false }
CreateRejects(i) ==
  /\ ai.prompts[i].pc = "create"
  /\ ai' = [ai EXCEPT !.prompts[i].pc = "done"]
  /\ UNCHANGED <<routerVars, contentVars, uiVars>>

\* session.prompt(text, options) resolves or rejects
PromptSettles(i) ==
  /\ ai.prompts[i].pc = "prompt"
  /\ ai' = [ai EXCEPT !.prompts[i].pc = "done"]
  /\ UNCHANGED <<routerVars, contentVars, uiVars>>

\* ------------------------------------------------- the highlighter's regex

\* escapedWords.sort((a, b) => b.length - a.length): stable, longest first
RECURSIVE InsertByLength(_, _)
InsertByLength(sorted, w) ==
  IF sorted = <<>> THEN <<w>>
  ELSE IF Len(Head(sorted)) >= Len(w)
       THEN <<Head(sorted)>> \o InsertByLength(Tail(sorted), w)
       ELSE <<w>> \o sorted

RECURSIVE SortByLength(_)
SortByLength(words) ==
  IF words = <<>> THEN <<>>
  ELSE InsertByLength(SortByLength(SubSeq(words, 1, Len(words) - 1)),
                      words[Len(words)])

\* createWordPattern with the sort left out
CreateWordPatternUnsorted(words) == words

\* createWordPattern: the alternatives of \b(w1|w2|...)\b, flags gi, in the
\* order the regular expression tries them
CreateWordPattern(words) == SortByLength(words)

\* \b at index p of text (indices count from 0, as lastIndex does)
WordCharAt(text, p) == p >= 0 /\ p < Len(text) /\ IsWordChar(text[p + 1])

Boundary(text, p) == WordCharAt(text, p - 1) # WordCharAt(text, p)

\* whether alternative alt matches at index p between two word boundaries
AltMatches(text, p, alt) ==
  /\ p + Len(alt) <= Len(text)
  /\ ToLowerCase(SubSeq(text, p + 1, p + Len(alt))) = ToLowerCase(alt)
  /\ Boundary(text, p)
  /\ Boundary(text, p + Len(alt))

\* the length of the match the pattern finds at index p: that of the first
\* alternative that matches there, 0 when none does
MatchLength(text, p, pattern) ==
  With({k \in 1..Len(pattern) : AltMatches(text, p, pattern[k])},
       LAMBDA hits : IF hits = {} THEN 0 ELSE Len(pattern[Least(hits)]))

\* RegExpBuiltinExec of a global pattern from lastIndex: <<index, length>>
\* of the leftmost match at or after it, <<>> when there is none
Exec(text, lastIndex, pattern) ==
  With({p \in lastIndex..Len(text) : MatchLength(text, p, pattern) > 0},
       LAMBDA hits : IF hits = {} THEN <<>>
                     ELSE <<Least(hits),
                            MatchLength(text, Least(hits), pattern)>>)

\* pattern.test(text): the lastIndex it leaves on the pattern, 0 on failure
LastIndexAfterTest(text, lastIndex, pattern) ==
  With(Exec(text, lastIndex, pattern),
       LAMBDA m : IF m = <<>> THEN 0 ELSE m[1] + m[2])

Test(text, lastIndex, pattern) == Exec(text, lastIndex, pattern) # <<>>

\* [...text.matchAll(pattern)]: the matches from the pattern's lastIndex on,
\* each <<index, length>>
RECURSIVE MatchAll(_, _, _)
MatchAll(text, lastIndex, pattern) ==
  With(Exec(text, lastIndex, pattern),
       LAMBDA m : IF m = <<>> THEN <<>>
                  ELSE <<m>> \o MatchAll(text, m[1] + m[2], pattern))

\* ------------------------------------------------------ the content script

\* a text node; ctx tells what is above it: "body" a paragraph of the body,
\* "script", "style", "noscript", "iframe" a parent with that tag,
\* "script p" a paragraph inside a script element, "situ" a parent with a
\* situ- class, "situ p" a paragraph inside an element with a situ- class
TextNode(text, ctx) ==
  [kind |-> "text", text |-> text, ctx |-> ctx, dataWord |-> <<>>, id |-> 0]

\* span.situ-highlight with its text and its data-word attribute
Marker(text, dataWord, id, ctx) ==
  [kind |-> "mark", text |-> text, ctx |-> ctx, dataWord |-> dataWord,
   id |-> id]

\* the script's variables when it starts (settings = {}: readingMode unset)
InitialContent ==
  [vocabulary |-> <<>>, readingMode |-> FALSE, highlightedElements |-> {},
   seenWordsThisSession |-> {}, pendingStatUpdates |-> 0,
   statsUpdateTimeout |-> NoTimer, pendingWordUpdates |-> <<>>,
   wordUpdateTimeout |-> NoTimer, observers |-> 0,
   highlightTimeout |-> NoTimer, nextMarker |-> 1, notification |-> FALSE]

InitialObs ==
  [log |-> <<>>, marked |-> {}, passes |-> 0, dirty |-> TRUE,
   sinceLast |-> StatsQuiet, base |-> 0]

\* scheduleWordTrackingUpdate with the clearTimeout left out: the timer
\* armed first keeps running
ScheduleWordTrackingUpdateNoClear(c) ==
  IF c.wordUpdateTimeout # NoTimer THEN c
  ELSE [c EXCEPT !.wordUpdateTimeout = WordQuiet]

\* scheduleWordTrackingUpdate: clearTimeout, then setTimeout(flush, 2000)
ScheduleWordTrackingUpdate(c) == [c EXCEPT !.wordUpdateTimeout = WordQuiet]

\* scheduleStatsUpdate: clearTimeout, then setTimeout(flush, 5000)
ScheduleStatsUpdate(c) == [c EXCEPT !.statsUpdateTimeout = StatsQuiet]

\* createHighlightElement with the seenWordsThisSession test left out
TrackSeenEveryTime(k, word) ==
  [content |->
     ScheduleStatsUpdate(ScheduleWordTrackingUpdate(
       [k.content EXCEPT
          !.seenWordsThisSession = @ \cup {ToLowerCase(word)},
          !.pendingWordUpdates = Append(@, [word |-> word]),
          !.pendingStatUpdates = @ + 1])),
   obs |-> [k.obs EXCEPT
              !.log = Append(@, [word |-> word, gap |-> k.obs.sinceLast]),
              !.sinceLast = 0]]

\* createHighlightElement, second half: the word is tracked as seen once
\* per session; k is the script's variables with the observations
TrackSeen(k, word) ==
  IF ToLowerCase(word) \in k.content.seenWordsThisSession THEN k
  ELSE [content |->
          ScheduleStatsUpdate(ScheduleWordTrackingUpdate(
            [k.content EXCEPT
               !.seenWordsThisSession = @ \cup {ToLowerCase(word)},
               !.pendingWordUpdates = Append(@, [word |-> word]),
               !.pendingStatUpdates = @ + 1])),
        obs |-> [k.obs EXCEPT
                   !.log = Append(@, [word |-> word, gap |-> k.obs.sinceLast]),
                   !.sinceLast = 0]]

\* createHighlightElement: the span is made and remembered, the word tracked
CreateHighlightElement(k, word) ==
  TrackSeen([content |-> [k.content EXCEPT
                            !.highlightedElements = @ \cup {k.content.nextMarker},
                            !.nextMarker = @ + 1],
             obs |-> [k.obs EXCEPT !.marked = @ \cup {ToLowerCase(word)}]],
            word)

\* a piece of text between matches becomes a text node when it is not empty
TextPiece(text, from, to, ctx) ==
  IF to > from THEN <<TextNode(SubSeq(text, from + 1, to), ctx)>> ELSE <<>>

\* highlightTextNode, the loop over the matches: the fragment's nodes, with
\* the script's variables after the createHighlightElement calls
RECURSIVE Fragment(_, _, _, _, _)
Fragment(k, node, matches, lastIndex, nodes) ==
  IF matches = <<>>
  THEN [k |-> k,
        nodes |-> nodes \o TextPiece(node.text, lastIndex, Len(node.text),
                                     node.ctx)]
  ELSE With(SubSeq(node.text, Head(matches)[1] + 1,
                   Head(matches)[1] + Head(matches)[2]),
            LAMBDA matchText :
              Fragment(CreateHighlightElement(k, matchText), node,
                       Tail(matches), Head(matches)[1] + Len(matchText),
                       nodes \o TextPiece(node.text, lastIndex,
                                          Head(matches)[1], node.ctx)
                             \o <<Marker(matchText, ToLowerCase(matchText),
                                         k.content.nextMarker, node.ctx)>>))

\* highlightTextNode: the nodes that stand in the text node's place
HighlightTextNode(k, node, lastIndex, pattern) ==
  With(MatchAll(node.text, lastIndex, pattern),
       LAMBDA matches : IF matches = <<>> THEN [k |-> k, nodes |-> <<node>>]
                        ELSE Fragment(k, node, matches, 0, <<>>))

\* acceptNode with the situ- class test left out: the text of a marker is
\* walked like the text around it
EligibleInMarkers(node) == node.ctx = "body"

\* ['script', 'style', 'noscript', 'iframe']
SkippedTags == {"script", "style", "noscript", "iframe"}

\* node.parentElement.tagName.toLowerCase()
ParentTag(ctx) ==
  IF ctx \in SkippedTags THEN ctx ELSE IF ctx = "situ" THEN "span" ELSE "p"

\* the loop from the parent upwards finds a class that starts with situ-
SituAbove(ctx) == ctx \in {"situ", "situ p"}

\* acceptNode before pattern.test: the parent's tag and the situ- classes
\* of the parent and its ancestors
Eligible(node) ==
  /\ node.kind = "text"
  /\ ParentTag(node.ctx) \notin SkippedTags
  /\ ~SituAbove(node.ctx)

\* the TreeWalker loop: acceptNode on every text node in document order;
\* the accepted nodes' positions and the lastIndex left on the pattern
RECURSIVE Walk(_, _, _, _, _)
Walk(nodes, i, lastIndex, pattern, accepted) ==
  IF i > Len(nodes) THEN [accepted |-> accepted, lastIndex |-> lastIndex]
  ELSE IF ~Eligible(nodes[i]) THEN Walk(nodes, i + 1, lastIndex, pattern, accepted)
  ELSE Walk(nodes, i + 1,
            LastIndexAfterTest(nodes[i].text, lastIndex, pattern), pattern,
            IF Test(nodes[i].text, lastIndex, pattern)
            THEN accepted \cup {i} ELSE accepted)

\* nodesToProcess.forEach(highlightTextNode)
RECURSIVE ProcessNodes(_, _, _, _, _, _)
ProcessNodes(k, nodes, i, walk, pattern, out) ==
  IF i > Len(nodes) THEN [k |-> k, nodes |-> out]
  ELSE IF i \notin walk.accepted
  THEN ProcessNodes(k, nodes, i + 1, walk, pattern, Append(out, nodes[i]))
  ELSE With(HighlightTextNode(k, nodes[i], walk.lastIndex, pattern),
            LAMBDA r : ProcessNodes(r.k, nodes, i + 1, walk, pattern,
                                    out \o r.nodes))

WordsOf(vocabulary) == [i \in 1..Len(vocabulary) |-> vocabulary[i].word]

\* highlightVocabulary after its early return
HighlightNodes(k, nodes, pattern) ==
  ProcessNodes(k, nodes, 1, Walk(nodes, 1, 0, pattern, {}), pattern, <<>>)

\* highlightVocabulary
HighlightVocabulary(k, nodes) ==
  IF k.content.vocabulary = <<>>
  THEN [k |-> [k EXCEPT !.obs.passes = @ + 1, !.obs.dirty = FALSE],
        nodes |-> nodes]
  ELSE HighlightNodes([k EXCEPT !.obs.passes = @ + 1, !.obs.dirty = FALSE],
                      nodes, CreateWordPattern(WordsOf(k.content.vocabulary)))

\* the MutationObserver callback with clearTimeout left out: a timer that
\* is pending stays and fires at its own time
ObserveMutationNoClear(c, changed) ==
  IF changed /\ c.observers > 0 /\ c.highlightTimeout = NoTimer
  THEN [c EXCEPT !.highlightTimeout = HighlightDebounce] ELSE c

\* the MutationObserver callbacks after a DOM change: every observer clears
\* observePageChanges.timeout and arms it again
ObserveMutation(c, changed) ==
  IF changed /\ c.observers > 0
  THEN [c EXCEPT !.highlightTimeout = HighlightDebounce] ELSE c

\* a highlightVocabulary call with the observers' reaction to its changes
HighlightPass(k, nodes) ==
  With(HighlightVocabulary(k, nodes),
       LAMBDA r : [k |-> [r.k EXCEPT
                            !.content = ObserveMutation(@, r.nodes # nodes)],
                   nodes |-> r.nodes])

\* startReadingMode: highlightVocabulary, then observePageChanges
StartReadingMode(k, nodes) ==
  With(HighlightPass(k, nodes),
       LAMBDA r : [r EXCEPT !.k.content.observers = @ + 1])

\* clearHighlights: every marker gives way to a text node of its text
ClearHighlights(k, nodes) ==
  With([i \in 1..Len(nodes) |->
          IF nodes[i].kind = "mark"
             /\ nodes[i].id \in k.content.highlightedElements
          THEN TextNode(nodes[i].text, nodes[i].ctx) ELSE nodes[i]],
       LAMBDA plain :
         [k |-> [content |-> ObserveMutation(
                               [k.content EXCEPT !.highlightedElements = {}],
                               plain # nodes),
                 obs |-> [k.obs EXCEPT !.dirty = TRUE]],
          nodes |-> plain])

\* ----------------------------------- the popup, the sentence, the fields

\* popup.js when the popup opens: let session = null; let isProcessing =
\* false; the submit button as the page has it; no handleSubmit run yet
InitialPopup ==
  [session |-> NoSession, isProcessing |-> FALSE, disabled |-> FALSE,
   created |-> 0, checked |-> FALSE, runs |-> <<>>]

\* no call of extractSentenceFromNode
NoExtract ==
  [textContent |-> <<>>, word |-> <<>>, called |-> FALSE, result |-> <<>>]

\* a page without text fields, writing mode not started
InitialWriting ==
  [fields |-> <<>>, observers |-> 0, starts |-> 0, mutations |-> 0]

\* the tab and the popup as they are when nothing has happened in them
NoUi ==
  /\ popup = InitialPopup
  /\ extract = NoExtract
  /\ writing = InitialWriting

\* ---------------------------------------------------------- StorageManager

\* vocabulary.find written without toLowerCase
FindWordCaseSensitive(vocabulary, word) ==
  LET hits == {i \in 1..Len(vocabulary) : vocabulary[i].word = word}
  IN IF hits = {} THEN 0 ELSE CHOOSE i \in hits : \A j \in hits : i <= j

\* vocabulary.find(item => item.word.toLowerCase() === word.toLowerCase()):
\* the index of the first such item, 0 when there is none
FindWord(vocabulary, word) ==
  LET hits == {i \in 1..Len(vocabulary) :
                 ToLowerCase(vocabulary[i].word) = ToLowerCase(word)}
  IN IF hits = {} THEN 0 ELSE CHOOSE i \in hits : \A j \in hits : i <= j

\* vocabulary.findIndex(item => item.id === id), 0 when there is none
FindId(vocabulary, id) ==
  LET hits == {i \in 1..Len(vocabulary) : vocabulary[i].id = id}
  IN IF hits = {} THEN 0 ELSE CHOOSE i \in hits : \A j \in hits : i <= j

\* wordData without enrichment: { word } or { word, sourceUrl,
\* sourceSentence }
NoWordData == [definition |-> "", examples |-> <<>>, synonyms |-> <<>>]

\* definition: wordData.definition || '', examples: wordData.examples || [],
\* synonyms: wordData.synonyms || []
NewWord(id, word) ==
  [id |-> id, word |-> Trim(word), seenCount |-> 0, usedCount |-> 0,
   recentlySeen |-> <<>>, definition |-> NoWordData.definition,
   examples |-> NoWordData.examples, synonyms |-> NoWordData.synonyms]

\* the newWord object addWord builds from wordData
NewWordOf(id, word, wordData) ==
  [NewWord(id, word) EXCEPT !.definition = wordData.definition,
                            !.examples = wordData.examples,
                            !.synonyms = wordData.synonyms]

\* vocabulary.filter(item => item.id !== id)
RECURSIVE FilterId(_, _)
FilterId(vocabulary, id) ==
  IF vocabulary = <<>> THEN <<>>
  ELSE IF Head(vocabulary).id = id THEN FilterId(Tail(vocabulary), id)
  ELSE <<Head(vocabulary)>> \o FilterId(Tail(vocabulary), id)

\* item.recentlySeen.findIndex(entry => entry.url === url), 0 when none
FindUrl(recentlySeen, url) ==
  LET hits == {i \in 1..Len(recentlySeen) : recentlySeen[i].url = url}
  IN IF hits = {} THEN 0 ELSE CHOOSE i \in hits : \A j \in hits : i <= j

\* addRecentlySeen with the slice(0, 3) left out
RecentlySeenNoSlice(recentlySeen, sentence, url) ==
  LET entry == [sentence |-> sentence, url |-> url]
      at == FindUrl(recentlySeen, url)
  IN IF at # 0 THEN [recentlySeen EXCEPT ![at] = entry]
     ELSE <<entry>> \o recentlySeen

\* the recentlySeen list addRecentlySeen leaves on the item
RecentlySeenAfter(recentlySeen, sentence, url) ==
  LET entry == [sentence |-> sentence, url |-> url]
      at == FindUrl(recentlySeen, url)
  IN IF at # 0 THEN [recentlySeen EXCEPT ![at] = entry]
     ELSE LET all == <<entry>> \o recentlySeen
          IN IF Len(all) > 3 THEN SubSeq(all, 1, 3) ELSE all

\* updateStats(key, increment): the stats object it writes
StatsAfterUpdate(stats, key, increment, day) ==
  LET daily == IF day \in DOMAIN stats.dailyStats THEN stats.dailyStats[day]
               ELSE [seen |-> 0, used |-> 0, added |-> 0]
      dailyKey == IF key = "wordsAdded" THEN "added"
                  ELSE IF key = "wordsSeen" THEN "seen" ELSE "used"
      daily2 == [daily EXCEPT ![dailyKey] = @ + increment]
  IN [stats EXCEPT
        ![key] = @ + increment,
        !.dailyStats = [d \in DOMAIN stats.dailyStats \cup {day} |->
                          IF d = day THEN daily2 ELSE stats.dailyStats[d]]]

\* -------------------------------------------------------- message router

RouterWords == {<<"a">>, <<"A">>, <<"b">>}

Urls == 1..MaxUrl

\* the ids a request can name: the last request of a run names no id that
\* an addWord of the same run could still create
RequestIds == 1..(MaxReq - 1)

\* the request messages the surfaces send (popup, dashboard, content script)
Requests ==
  [action : {"addWord", "incrementSeenCount", "incrementUsedCount"},
   word : RouterWords, id : {0}, url : {0}]
  \cup [action : {"updateWord"}, word : RouterWords, id : RequestIds,
        url : {0}]
  \cup [action : {"deleteWord"}, word : {<<>>}, id : RequestIds, url : {0}]
  \cup [action : {"addRecentlySeen"}, word : RouterWords, id : {0}, url : Urls]
  \cup [action : {"updateSettings", "clearAllData", "batchUpdateStats",
                  "batchUpdateWordTracking"},
        word : {<<>>}, id : {0}, url : {0}]

VocabularyActions ==
  {"addWord", "updateWord", "deleteWord", "incrementSeenCount",
   "incrementUsedCount", "addRecentlySeen"}

\* the object exportVocabulary returns, before it is filled
NoData ==
  [version |-> "", exportDate |-> 0, vocabulary |-> <<>>,
   settings |-> DEFAULT_SETTINGS, stats |-> EmptyStats]

\* if (data.vocabulary), if (data.settings), if (data.stats): arrays and
\* objects are truthy, the empty ones too
TruthyWhenFilled(value) == DOMAIN value # {}

Truthy(value) == TRUE

\* importVocabulary: if (data[field]) await chrome.storage.sync.set(...)
ImportKey(st, key, value) ==
  IF Truthy(value) THEN StorageSet(st, key, value) ELSE st

\* a handleMessage invocation that has returned: the message and the locals
\* are out of scope, what stays is what it answered
Returned(h) ==
  [h EXCEPT !.pc = "done", !.word = <<>>, !.id = 0, !.url = 0,
            !.vocabulary = <<>>, !.stats = EmptyStats,
            !.settings = DEFAULT_SETTINGS, !.statsKey = "",
            !.data = IF h.action = "importData" THEN NoData ELSE @,
            !.wordData = NoWordData, !.prompts = {}]

\* the switch without its default case: no response is sent
DefaultCaseSilent(h) == Returned(h)

\* default: sendResponse({ success: false, error: 'Unknown action' })
DefaultCase(h) ==
  Returned([h EXCEPT !.result = "Unknown action", !.responses = 1])

\* the actions the content script sends that the switch has no case for
UnknownActions == {"batchUpdateStats", "batchUpdateWordTracking"}

\* handleMessage up to its first await: the switch picks the case and the
\* StorageManager method issues its first storage call
Invoke(msg, st) ==
  LET base == [action |-> msg.action, word |-> msg.word, id |-> msg.id,
               url |-> msg.url, pc |-> "done", vocabulary |-> <<>>,
               stats |-> EmptyStats, settings |-> DEFAULT_SETTINGS,
               statsKey |-> "", result |-> "", applied |-> FALSE,
               newId |-> 0, responses |-> 0, failed |-> FALSE,
               data |-> NoData, surface |-> "message", checked |-> FALSE,
               available |-> FALSE, wordData |-> NoWordData,
               prompts |-> {}, notified |-> <<>>]
  IN IF msg.action \in VocabularyActions
     THEN [base EXCEPT !.pc = "vocabulary", !.vocabulary = GetVocabulary(st)]
     ELSE IF msg.action = "enrichWord"
     THEN [base EXCEPT !.pc = "availability"]
     ELSE IF msg.action = "updateSettings"
     THEN [base EXCEPT !.pc = "settings", !.settings = GetSettings(st)]
     ELSE IF msg.action = "clearAllData"
     THEN [base EXCEPT !.pc = "respond", !.result = "success"]
     ELSE IF msg.action = "exportData"
     THEN [base EXCEPT !.pc = "exportSettings",
                       !.vocabulary = GetVocabulary(st)]
     ELSE IF msg.action = "importData"
     THEN [base EXCEPT !.pc = "importSettings", !.data = msg.data]
     ELSE DefaultCase(base)

\* chrome.runtime.onMessage: the listener starts handleMessage and returns
HandleMessage(msg) ==
  /\ handlers' = Append(handlers, Invoke(msg, storage))
  /\ storage' = IF msg.action = "clearAllData"
                THEN StorageRemove(storage, {STORAGE_KEYS.VOCABULARY,
                                             STORAGE_KEYS.SETTINGS,
                                             STORAGE_KEYS.STATS})
                ELSE IF msg.action = "importData"
                THEN ImportKey(storage, STORAGE_KEYS.VOCABULARY,
                               msg.data.vocabulary)
                ELSE storage
  /\ UNCHANGED <<nextId, today, tabMessages>>

\* a request of the popup or the dashboard reaches the background worker
Receive(msg) ==
  /\ HandleMessage(msg)
  /\ UNCHANGED <<contentVars, ai, uiVars>>

\* the size check written with > in place of >=
LimitReachedOneLate(vocabulary) == Len(vocabulary) > MAX_VOCABULARY_SIZE

\* if (vocabulary.length >= MAX_VOCABULARY_SIZE)
LimitReached(vocabulary) == Len(vocabulary) >= MAX_VOCABULARY_SIZE

\* the StorageManager method after its getVocabulary: the array it holds
\* once it has decided (vocabulary), whether it writes the array back
\* (applied), and where it goes on
AfterGetVocabulary(h, id) ==
  LET v == h.vocabulary
      byWord == FindWord(v, h.word)
      byId == FindId(v, h.id)
      skip == [h EXCEPT !.pc = "respond", !.result = "success"]
      write == [h EXCEPT !.pc = "respond", !.result = "success",
                         !.applied = TRUE]
      count == [write EXCEPT !.pc = "getStats"]
  IN CASE h.action = "addWord" ->
            IF byWord # 0
            THEN [h EXCEPT !.pc = "respond", !.result = "Word already exists"]
            ELSE IF LimitReached(v)
            THEN [h EXCEPT !.pc = "respond",
                           !.result = "Vocabulary limit reached"]
            ELSE [count EXCEPT !.statsKey = "wordsAdded", !.newId = id,
                               !.vocabulary =
                                 Append(v, NewWordOf(id, h.word, h.wordData))]
       [] h.action = "updateWord" ->
            IF byId = 0
            THEN [h EXCEPT !.pc = "respond", !.result = "Word not found"]
            ELSE [write EXCEPT !.vocabulary[byId].word = h.word]
       [] h.action = "deleteWord" ->
            [write EXCEPT !.vocabulary = FilterId(v, h.id)]
       [] h.action = "incrementSeenCount" ->
            IF byWord = 0 THEN skip
            ELSE [count EXCEPT !.statsKey = "wordsSeen",
                               !.vocabulary[byWord].seenCount = @ + 1]
       [] h.action = "incrementUsedCount" ->
            IF byWord = 0 THEN skip
            ELSE [count EXCEPT !.statsKey = "wordsUsed",
                               !.vocabulary[byWord].usedCount = @ + 1]
       [] OTHER ->
            IF byWord = 0 THEN skip
            ELSE [write EXCEPT !.vocabulary[byWord].recentlySeen =
                                  RecentlySeenAfter(@, 0, h.url)]

\* the code between the await of getVocabulary and the next await; the
\* local array is not used after it
VocabularyStep(i) ==
  /\ handlers[i].pc = "vocabulary"
  /\ LET h2 == AfterGetVocabulary(handlers[i], nextId)
     IN /\ handlers' = [handlers EXCEPT ![i] = [h2 EXCEPT !.vocabulary = <<>>]]
        /\ storage' = IF h2.applied
                      THEN StorageSet(storage, STORAGE_KEYS.VOCABULARY,
                                      h2.vocabulary)
                      ELSE storage
        /\ nextId' = IF h2.newId # 0 THEN nextId + 1 ELSE nextId
  /\ UNCHANGED <<today, tabMessages>>
  /\ UNCHANGED <<contentVars, ai, uiVars>>

\* updateStats: await this.getStats()
GetStatsStep(i) ==
  /\ handlers[i].pc = "getStats"
  /\ handlers' = [handlers EXCEPT ![i].pc = "setStats",
                                  ![i].stats = GetStats(storage)]
  /\ UNCHANGED <<storage, nextId, today, tabMessages>>
  /\ UNCHANGED <<contentVars, ai, uiVars>>

\* updateStats: the increment and chrome.storage.sync.set of the stats
SetStatsStep(i) ==
  /\ handlers[i].pc = "setStats"
  /\ LET stats2 == StatsAfterUpdate(handlers[i].stats, handlers[i].statsKey,
                                    1, today)
     IN /\ handlers' = [handlers EXCEPT ![i].pc = "respond",
                                        ![i].stats = EmptyStats]
        /\ storage' = StorageSet(storage, STORAGE_KEYS.STATS, stats2)
  /\ UNCHANGED <<nextId, today, tabMessages>>
  /\ UNCHANGED <<contentVars, ai, uiVars>>

\* sendResponse(result) of the cases that end with it
Respond(i) ==
  /\ handlers[i].pc = "respond"
  /\ handlers[i].surface # "menu"
  /\ handlers' = [handlers EXCEPT
                   ![i] = Returned([@ EXCEPT !.responses = @ + 1])]
  /\ UNCHANGED <<storage, nextId, today, tabMessages>>
  /\ UNCHANGED <<contentVars, ai, uiVars>>

\* updateSettings after getSettings: the merge and the set
SettingsStep(i, updates) ==
  /\ handlers[i].pc = "settings"
  /\ LET new == [k \in DOMAIN handlers[i].settings |->
                   IF k \in DOMAIN updates THEN updates[k]
                   ELSE handlers[i].settings[k]]
     IN /\ handlers' = [handlers EXCEPT ![i].pc = "respondSettings",
                                        ![i].settings = new,
                                        ![i].result = "success"]
        /\ storage' = StorageSet(storage, STORAGE_KEYS.SETTINGS, new)
  /\ UNCHANGED <<nextId, today, tabMessages>>
  /\ UNCHANGED <<contentVars, ai, uiVars>>

\* case 'updateSettings': sendResponse(settingsResult), then tabs.query
RespondSettings(i) ==
  /\ handlers[i].pc = "respondSettings"
  /\ handlers' = [handlers EXCEPT ![i].pc = "notify", ![i].responses = @ + 1]
  /\ UNCHANGED <<storage, nextId, today, tabMessages>>
  /\ UNCHANGED <<contentVars, ai, uiVars>>

\* case 'updateSettings' after tabs.query: the tabs are notified, or the
\* query (or a sendMessage call) throws and the catch block responds
NotifyTabs(i, ok) ==
  /\ handlers[i].pc = "notify"
  /\ IF ok
     THEN /\ handlers' = [handlers EXCEPT ![i] = Returned(@)]
          /\ tabMessages' = Append(tabMessages, handlers[i].settings)
     ELSE /\ handlers' = [handlers EXCEPT
                           ![i] = Returned([@ EXCEPT !.result = "error",
                                                     !.responses = @ + 1])]
          /\ tabMessages' = tabMessages
  /\ UNCHANGED <<storage, nextId, today>>
  /\ UNCHANGED <<contentVars, ai, uiVars>>

\* midnight passes: new Date() gives the next date
DayPasses ==
  /\ today < MaxDay
  /\ today' = today + 1
  /\ UNCHANGED <<storage, handlers, nextId, tabMessages>>
  /\ UNCHANGED <<contentVars, ai, uiVars>>

SettingsUpdates ==
  {[readingMode |-> FALSE], [readingMode |-> TRUE], [writingMode |-> FALSE]}

\* no tab has a content script running
NoContent ==
  /\ page = <<>>
  /\ content = InitialContent
  /\ outbox = <<>>
  /\ delivered = 0
  /\ env = [session |-> 1, changes |-> 0, messages |-> 0, started |-> FALSE,
            unloaded |-> TRUE, document |-> <<>>]
  /\ obs = InitialObs

RouterInit ==
  /\ storage = EmptyStorage
  /\ handlers = <<>>
  /\ nextId = 1
  /\ today = 1
  /\ tabMessages = <<>>
  /\ ai = InitialAI
  /\ NoUi
  /\ NoContent

HandlerStep ==
  \E i \in 1..Len(handlers) :
    \/ VocabularyStep(i)
    \/ GetStatsStep(i)
    \/ SetStatsStep(i)
    \/ Respond(i)
    \/ \E u \in SettingsUpdates : SettingsStep(i, u)
    \/ RespondSettings(i)
    \/ \E ok \in BOOLEAN : NotifyTabs(i, ok)

RouterNext ==
  \/ \E msg \in Requests : Len(handlers) < MaxReq /\ Receive(msg)
  \/ HandlerStep

SpecRouter == RouterInit /\ [][RouterNext]_vars

\* the background worker receiving the requests of the word forms of the
\* popup and the dashboard: addWord and deleteWord
AddWordRequests ==
  [action : {"addWord"}, word : RouterWords, id : {0}, url : {0}]
  \cup [action : {"deleteWord"}, word : {<<>>}, id : RequestIds, url : {0}]

AddWordNext ==
  \/ \E msg \in AddWordRequests : Len(handlers) < MaxAddReq /\ Receive(msg)
  \/ \E i \in 1..Len(handlers) :
       \/ VocabularyStep(i)
       \/ GetStatsStep(i)
       \/ SetStatsStep(i)
       \/ Respond(i)

SpecAddWord == RouterInit /\ [][AddWordNext]_vars

\* the background worker with a vocabulary of two words in the Store, as
\* two addWord requests leave it, receiving the increment requests the
\* content script sends
UsageRequests ==
  [action : {"incrementSeenCount", "incrementUsedCount"},
   word : {<<"a">>, <<"b">>}, id : {0}, url : {0}]

UsageInit ==
  /\ storage =
       [k \in {STORAGE_KEYS.VOCABULARY, STORAGE_KEYS.STATS} |->
          IF k = STORAGE_KEYS.VOCABULARY
          THEN <<NewWord(1, <<"a">>), NewWord(2, <<"b">>)>>
          ELSE [EmptyStats EXCEPT
                  !.wordsAdded = 2,
                  !.dailyStats = [d \in {1} |->
                                    [seen |-> 0, used |-> 0, added |-> 2]]]]
  /\ handlers = <<>>
  /\ nextId = 3
  /\ today = 1
  /\ tabMessages = <<>>
  /\ ai = InitialAI
  /\ NoUi
  /\ NoContent

UsageNext ==
  \/ \E msg \in UsageRequests : Len(handlers) < MaxReq /\ Receive(msg)
  \/ \E i \in 1..Len(handlers) :
       \/ VocabularyStep(i)
       \/ GetStatsStep(i)
       \/ SetStatsStep(i)
       \/ Respond(i)
  \/ DayPasses

SpecUsage == UsageInit /\ [][UsageNext]_vars

\* ------------------------------ the background worker, words to validate

MaxBlankReq == 2

\* wordData.word of the addWord requests: empty, blank, and words
BlankWords == {<<>>, <<" ">>, <<"a">>, <<" ", "a">>}

BlankRequests == [action : {"addWord"}, word : BlankWords, id : {0}, url : {0}]

BlankNext ==
  \/ \E msg \in BlankRequests : Len(handlers) < MaxBlankReq /\ Receive(msg)
  \/ \E i \in 1..Len(handlers) :
       \/ VocabularyStep(i)
       \/ GetStatsStep(i)
       \/ SetStatsStep(i)
       \/ Respond(i)

SpecBlank == RouterInit /\ [][BlankNext]_vars

\* ------------------------------------ the background worker, AI prompts

AIInit ==
  /\ storage = EmptyStorage
  /\ handlers = <<>>
  /\ nextId = 1
  /\ today = 1
  /\ tabMessages = <<>>
  /\ ai = InitialAI
  /\ NoUi
  /\ NoContent

AINext ==
  \/ SinglePrompt
  \/ EnrichWord
  \/ \E i \in 1..Len(ai.prompts) :
       \/ CreateResolves(i)
       \/ CreateRejects(i)
       \/ PromptSettles(i)

\* the background worker's AIHelper serving prompts
SpecAI == AIInit /\ [][AINext]_vars

\* --------------------------------- the background worker, failing storage

MaxFaultyReq == 2     \* requests received in the run with failing storage

\* the counting requests of the content script
CountingActions == {"incrementSeenCount", "incrementUsedCount",
                    "addRecentlySeen"}

CountingRequests ==
  [action : {"incrementSeenCount", "incrementUsedCount"},
   word : {<<"a">>, <<"b">>}, id : {0}, url : {0}]
  \cup [action : {"addRecentlySeen"}, word : {<<"a">>}, id : {0}, url : {1}]

\* what the StorageManager method returns from its catch block: the
\* counting methods return nothing and the router answers success: true,
\* the others return {success: false, error: error.message}
Caught(h) ==
  [h EXCEPT !.pc = "respond", !.applied = FALSE, !.failed = TRUE,
            !.vocabulary = <<>>, !.stats = EmptyStats, !.newId = 0,
            !.statsKey = "",
            !.result = IF h.action \in CountingActions THEN "success"
                       ELSE "error"]

\* chrome.storage.sync.get rejects in getVocabulary: its catch returns []
\* and the method goes on with the empty array
ReceiveReadFails(msg) ==
  /\ msg.action \in VocabularyActions
  /\ handlers' = Append(handlers,
                        [Invoke(msg, EmptyStorage) EXCEPT !.failed = TRUE])
  /\ UNCHANGED <<storage, nextId, today, tabMessages>>
  /\ UNCHANGED <<contentVars, ai, uiVars>>

\* chrome.storage.sync.set of the vocabulary rejects (quota, rate limit):
\* nothing is stored and the method's catch block runs
SetVocabularyFails(i) ==
  /\ handlers[i].pc = "vocabulary"
  /\ AfterGetVocabulary(handlers[i], nextId).applied
  /\ handlers' = [handlers EXCEPT ![i] = Caught(@)]
  /\ UNCHANGED <<storage, nextId, today, tabMessages>>
  /\ UNCHANGED <<contentVars, ai, uiVars>>

\* chrome.storage.sync.set of the stats rejects: updateStats catches it and
\* its caller goes on
SetStatsFails(i) ==
  /\ handlers[i].pc = "setStats"
  /\ handlers' = [handlers EXCEPT ![i].pc = "respond",
                                  ![i].stats = EmptyStats,
                                  ![i].failed = TRUE]
  /\ UNCHANGED <<storage, nextId, today, tabMessages>>
  /\ UNCHANGED <<contentVars, ai, uiVars>>

FaultyNext ==
  \/ \E msg \in CountingRequests :
       Len(handlers) < MaxFaultyReq /\ Receive(msg)
  \/ \E msg \in CountingRequests :
       Len(handlers) < MaxFaultyReq /\ ReceiveReadFails(msg)
  \/ \E i \in 1..Len(handlers) :
       \/ VocabularyStep(i)
       \/ SetVocabularyFails(i)
       \/ GetStatsStep(i)
       \/ SetStatsStep(i)
       \/ SetStatsFails(i)
       \/ Respond(i)

\* the background worker with two words in the Store and a chrome.storage
\* whose calls may reject, receiving the content script's counting requests
SpecFaulty == UsageInit /\ [][FaultyNext]_vars

\* ------------------------------------ the background worker, data export

MaxExportReq == 5

\* exportVocabulary after getVocabulary: await this.getSettings()
ExportSettingsStep(i) ==
  /\ handlers[i].pc = "exportSettings"
  /\ handlers' = [handlers EXCEPT ![i].pc = "exportStats",
                                  ![i].settings = GetSettings(storage)]
  /\ UNCHANGED <<storage, nextId, today, tabMessages>>
  /\ UNCHANGED <<contentVars, ai, uiVars>>

\* exportVocabulary after getSettings: await this.getStats() and the object
\* that case 'exportData' answers with
ExportStatsStep(i) ==
  /\ handlers[i].pc = "exportStats"
  /\ handlers' = [handlers EXCEPT
                   ![i].pc = "respond", ![i].result = "success",
                   ![i].data = [version |-> "1.0", exportDate |-> today,
                                vocabulary |-> handlers[i].vocabulary,
                                settings |-> handlers[i].settings,
                                stats |-> GetStats(storage)]]
  /\ UNCHANGED <<storage, nextId, today, tabMessages>>
  /\ UNCHANGED <<contentVars, ai, uiVars>>

\* importVocabulary after the vocabulary: if (data.settings) set
ImportSettingsStep(i) ==
  /\ handlers[i].pc = "importSettings"
  /\ handlers' = [handlers EXCEPT ![i].pc = "importStats"]
  /\ storage' = ImportKey(storage, STORAGE_KEYS.SETTINGS,
                          handlers[i].data.settings)
  /\ UNCHANGED <<nextId, today, tabMessages>>
  /\ UNCHANGED <<contentVars, ai, uiVars>>

\* importVocabulary after the settings: if (data.stats) set, then
\* return { success: true }
ImportStatsStep(i) ==
  /\ handlers[i].pc = "importStats"
  /\ handlers' = [handlers EXCEPT ![i].pc = "respond",
                                  ![i].result = "success"]
  /\ storage' = ImportKey(storage, STORAGE_KEYS.STATS, handlers[i].data.stats)
  /\ UNCHANGED <<nextId, today, tabMessages>>
  /\ UNCHANGED <<contentVars, ai, uiVars>>

\* the files the dashboard has downloaded: the answers of case 'exportData'
ExportedFiles ==
  {handlers[i].data : i \in {j \in 1..Len(handlers) :
                                /\ handlers[j].action = "exportData"
                                /\ handlers[j].pc = "done"}}

\* what the dashboard and the popup send while data is exported and imported
ExportRequests ==
  [action : {"addWord", "incrementSeenCount"}, word : {<<"a">>}, id : {0},
   url : {0}]
  \cup [action : {"updateSettings", "clearAllData", "exportData"},
        word : {<<>>}, id : {0}, url : {0}]

ImportRequests ==
  [action : {"importData"}, word : {<<>>}, id : {0}, url : {0},
   data : ExportedFiles]

\* every earlier request has been answered
Idle == \A i \in 1..Len(handlers) : handlers[i].pc = "done"

\* the dashboard sends a request when the one before was answered
ExportNext ==
  \/ \E msg \in ExportRequests :
       Len(handlers) < MaxExportReq /\ Idle /\ Receive(msg)
  \/ \E msg \in ImportRequests :
       Len(handlers) < MaxExportReq /\ Idle /\ Receive(msg)
  \/ \E i \in 1..Len(handlers) :
       \/ VocabularyStep(i)
       \/ GetStatsStep(i)
       \/ SetStatsStep(i)
       \/ Respond(i)
       \/ \E u \in SettingsUpdates : SettingsStep(i, u)
       \/ RespondSettings(i)
       \/ NotifyTabs(i, TRUE)
       \/ ExportSettingsStep(i)
       \/ ExportStatsStep(i)
       \/ ImportSettingsStep(i)
       \/ ImportStatsStep(i)
  \/ DayPasses

SpecExport == RouterInit /\ [][ExportNext]_vars

\* ------------------------------------------- the content script in a tab

\* flushStatsUpdates: the message goes out when something is pending
FlushStatsUpdates(c, out) ==
  [content |-> [c EXCEPT !.pendingStatUpdates = 0,
                         !.statsUpdateTimeout = NoTimer],
   outbox |-> IF c.pendingStatUpdates > 0
              THEN Append(out, [action |-> "batchUpdateStats",
                                updates |-> <<>>,
                                wordsSeen |-> c.pendingStatUpdates])
              ELSE out]

\* flushWordTrackingUpdates with pendingWordUpdates = [] left out
FlushWordTrackingUpdatesNoReset(c, out) ==
  [content |-> [c EXCEPT !.wordUpdateTimeout = NoTimer],
   outbox |-> IF Len(c.pendingWordUpdates) > 0
              THEN Append(out, [action |-> "batchUpdateWordTracking",
                                updates |-> c.pendingWordUpdates,
                                wordsSeen |-> 0])
              ELSE out]

\* flushWordTrackingUpdates
FlushWordTrackingUpdates(c, out) ==
  [content |-> [c EXCEPT !.pendingWordUpdates = <<>>,
                         !.wordUpdateTimeout = NoTimer],
   outbox |-> IF Len(c.pendingWordUpdates) > 0
              THEN Append(out, [action |-> "batchUpdateWordTracking",
                                updates |-> c.pendingWordUpdates,
                                wordsSeen |-> 0])
              ELSE out]

\* showNotification: a situ-notification element is appended to the body
ShowNotification(c) == ObserveMutation([c EXCEPT !.notification = TRUE], TRUE)

Running == ~env.unloaded

\* the script's variables and the page after a step of the script
Becomes(r) ==
  /\ content' = r.k.content
  /\ obs' = r.k.obs
  /\ page' = r.nodes

\* initialize(): the vocabulary and the settings are fetched from the
\* background worker, then reading mode starts
Initialize ==
  /\ Running
  /\ ~env.started
  /\ \E k1 \in {[content |-> [content EXCEPT
                               !.vocabulary = GetVocabulary(storage),
                               !.readingMode =
                                  GetSettings(storage).readingMode],
                 obs |-> [obs EXCEPT !.dirty = TRUE]]} :
       Becomes(IF k1.content.readingMode /\ Len(k1.content.vocabulary) > 0
               THEN StartReadingMode(k1, page)
               ELSE [k |-> k1, nodes |-> page])
  /\ env' = [env EXCEPT !.started = TRUE]
  /\ UNCHANGED <<outbox, delivered>>
  /\ UNCHANGED <<routerVars, ai, uiVars>>

\* the observers' debounce timer fires: highlightVocabulary()
DebouncedPass ==
  /\ Running
  /\ content.highlightTimeout = 0
  /\ Becomes(HighlightPass(
       [content |-> [content EXCEPT !.highlightTimeout = NoTimer],
        obs |-> obs], page))
  /\ UNCHANGED <<outbox, delivered, env>>
  /\ UNCHANGED <<routerVars, ai, uiVars>>

\* onMessage case 'wordAdded': push, showNotification, highlightVocabulary
WordAdded(k, item, nodes) ==
  With([content |-> [k.content EXCEPT !.vocabulary = Append(@, item)],
        obs |-> [k.obs EXCEPT !.dirty = TRUE]],
       LAMBDA pushed :
         With(IF pushed.content.readingMode
              THEN HighlightVocabulary(pushed, nodes)
              ELSE [k |-> pushed, nodes |-> nodes],
              LAMBDA r : [r EXCEPT !.k.content = ShowNotification(@)]))

\* the context menu handler of the background worker adds the selection
\* and tells the tab: wordAdded, or wordExists for a duplicate
ContextMenuAdd(selectionText) ==
  /\ Running
  /\ env.messages < MaxMessages
  /\ \E v \in {GetVocabulary(storage)},
        item \in {NewWord(nextId, Trim(selectionText))} :
       IF FindWord(v, item.word) # 0
       THEN /\ content' = ShowNotification(content)
            /\ UNCHANGED <<storage, nextId, page, obs>>
       ELSE IF Len(v) >= MAX_VOCABULARY_SIZE
       THEN UNCHANGED <<storage, nextId, page, obs, content>>
       ELSE /\ storage' =
                 StorageSet(StorageSet(storage, STORAGE_KEYS.VOCABULARY,
                                       Append(v, item)),
                            STORAGE_KEYS.STATS,
                            StatsAfterUpdate(GetStats(storage), "wordsAdded",
                                             1, today))
            /\ nextId' = nextId + 1
            /\ Becomes(WordAdded([content |-> content, obs |-> obs], item,
                                 page))
  /\ env' = [env EXCEPT !.messages = @ + 1]
  /\ UNCHANGED <<outbox, delivered, handlers, today, tabMessages, ai,
                 uiVars>>

\* the notification's own timers remove it from the body
NotificationRemoved ==
  /\ Running
  /\ content.notification
  /\ content' = ObserveMutation([content EXCEPT !.notification = FALSE], TRUE)
  /\ UNCHANGED <<page, outbox, delivered, env, obs>>
  /\ UNCHANGED <<routerVars, ai, uiVars>>

\* the popup's reading mode switch: the background worker stores the
\* setting and sends settingsUpdated to the tab
SettingsUpdated(readingMode) ==
  /\ Running
  /\ env.messages < MaxMessages
  /\ storage' = StorageSet(storage, STORAGE_KEYS.SETTINGS,
                           [GetSettings(storage) EXCEPT
                              !.readingMode = readingMode])
  /\ \E k1 \in {[content |-> [content EXCEPT !.readingMode = readingMode],
                 obs |-> obs]} :
       Becomes(IF readingMode THEN StartReadingMode(k1, page)
               ELSE ClearHighlights(k1, page))
  /\ env' = [env EXCEPT !.messages = @ + 1]
  /\ UNCHANGED <<outbox, delivered, handlers, nextId, today, tabMessages,
                 ai, uiVars>>

\* the page adds a text node to its body
PageChange(node) ==
  /\ Running
  /\ env.changes < MaxChanges
  /\ page' = Append(page, node)
  /\ content' = ObserveMutation(content, TRUE)
  /\ obs' = [obs EXCEPT !.dirty = TRUE]
  /\ env' = [env EXCEPT !.changes = @ + 1]
  /\ UNCHANGED <<outbox, delivered>>
  /\ UNCHANGED <<routerVars, ai, uiVars>>

\* what a flush leaves: the script's variables and the messages sent
Flushed(f) ==
  /\ content' = f.content
  /\ outbox' = f.outbox

\* the 2 s timer of scheduleWordTrackingUpdate fires
WordTimerFires ==
  /\ Running
  /\ content.wordUpdateTimeout = 0
  /\ Flushed(FlushWordTrackingUpdates(content, outbox))
  /\ UNCHANGED <<page, delivered, env, obs>>
  /\ UNCHANGED <<routerVars, ai, uiVars>>

\* the 5 s timer of scheduleStatsUpdate fires
StatsTimerFires ==
  /\ Running
  /\ content.statsUpdateTimeout = 0
  /\ Flushed(FlushStatsUpdates(content, outbox))
  /\ UNCHANGED <<page, delivered, env, obs>>
  /\ UNCHANGED <<routerVars, ai, uiVars>>

\* beforeunload: both accumulators are flushed, the page and the script's
\* timers go away
BeforeUnload ==
  /\ Running
  /\ \E f \in {FlushStatsUpdates(content, outbox)} :
       \E g \in {FlushWordTrackingUpdates(f.content, f.outbox)} :
         Flushed([g EXCEPT !.content.highlightTimeout = NoTimer])
  /\ env' = [env EXCEPT !.unloaded = TRUE]
  /\ UNCHANGED <<page, delivered, obs>>
  /\ UNCHANGED <<routerVars, ai, uiVars>>

\* the document is loaded again: a new content script starts
NewSession ==
  /\ env.unloaded
  /\ env.session < MaxSessions
  /\ page' = env.document
  /\ content' = InitialContent
  /\ obs' = [InitialObs EXCEPT !.base = Len(outbox)]
  /\ env' = [env EXCEPT !.session = @ + 1, !.started = FALSE,
                        !.unloaded = FALSE]
  /\ UNCHANGED <<outbox, delivered>>
  /\ UNCHANGED <<routerVars, ai, uiVars>>

\* chrome.runtime.sendMessage: a flush message reaches the background worker
Deliver ==
  /\ delivered < Len(outbox)
  /\ HandleMessage([action |-> outbox[delivered + 1].action, word |-> <<>>,
                    id |-> 0, url |-> 0])
  /\ delivered' = delivered + 1
  /\ UNCHANGED <<page, content, outbox, env, obs, ai, uiVars>>

CountDown(t, d) == IF t = NoTimer THEN NoTimer ELSE t - d

Armed(c) ==
  {t \in {c.highlightTimeout, c.wordUpdateTimeout, c.statsUpdateTimeout} :
     t # NoTimer}

\* d times 500 ms pass and no timer is due before the end of them
Elapse(d) ==
  /\ Running
  /\ d >= 1
  /\ \A t \in Armed(content) : d <= t
  /\ ~(Armed(content) = {} /\ obs.sinceLast >= StatsQuiet)
  /\ content' = [content EXCEPT !.highlightTimeout = CountDown(@, d),
                                !.wordUpdateTimeout = CountDown(@, d),
                                !.statsUpdateTimeout = CountDown(@, d)]
  /\ obs' = [obs EXCEPT !.sinceLast = IF @ + d < StatsQuiet THEN @ + d
                                      ELSE StatsQuiet]
  /\ UNCHANGED <<page, outbox, delivered, env>>
  /\ UNCHANGED <<routerVars, ai, uiVars>>

\* the time passes up to the next timer that is due
ElapseToDue ==
  \E d \in 1..StatsQuiet :
    /\ d \in Armed(content)
    /\ Elapse(d)

\* the text nodes of the pages
PageNodes ==
  {TextNode(<<"a">>, "body"), TextNode(<<"A", " ", "b">>, "body"),
   TextNode(<<"a", "b">>, "body"), TextNode(<<"a">>, "script"),
   TextNode(<<"a">>, "situ")}

Pages == UNION {[1..n -> PageNodes] : n \in 1..MaxNodes}

\* the vocabularies in the Store when the page is opened
Vocabularies == {<<>>, <<<<"a">>>>}

\* what the context menu is used on
Selections == {<<"b">>, <<"a", "b">>, <<" ", "a">>}

\* the Store after the words were added, with the settings saved or not
StoreOf(words, saved, readingMode) ==
  LET v == [i \in 1..Len(words) |-> NewWord(i, words[i])]
      stats == [EmptyStats EXCEPT
                  !.wordsAdded = Len(words),
                  !.dailyStats = [d \in {1} |->
                                    [seen |-> 0, used |-> 0,
                                     added |-> Len(words)]]]
      st == StorageSet(StorageSet(EmptyStorage, STORAGE_KEYS.VOCABULARY, v),
                       STORAGE_KEYS.STATS, stats)
  IN IF saved
     THEN StorageSet(st, STORAGE_KEYS.SETTINGS,
                     [DEFAULT_SETTINGS EXCEPT !.readingMode = readingMode])
     ELSE st

\* the tab's page is opened with the Store st
ContentInit(st, nodes) ==
  /\ storage = st
  /\ nextId = Len(GetVocabulary(st)) + 1
  /\ handlers = <<>>
  /\ today = 1
  /\ tabMessages = <<>>
  /\ ai = InitialAI
  /\ NoUi
  /\ page = nodes
  /\ content = InitialContent
  /\ outbox = <<>>
  /\ delivered = 0
  /\ env = [session |-> 1, changes |-> 0, messages |-> 0, started |-> FALSE,
            unloaded |-> FALSE, document |-> nodes]
  /\ obs = InitialObs

HighlightInit ==
  \E words \in Vocabularies, saved \in BOOLEAN, nodes \in Pages :
    ContentInit(StoreOf(words, saved, FALSE), nodes)

HighlightNext ==
  \/ Initialize
  \/ DebouncedPass
  \/ \E selectionText \in Selections : ContextMenuAdd(selectionText)
  \/ NotificationRemoved
  \/ \E readingMode \in BOOLEAN : SettingsUpdated(readingMode)
  \/ \E node \in PageNodes : PageChange(node)
  \/ WordTimerFires
  \/ StatsTimerFires
  \/ BeforeUnload
  \/ NewSession
  \/ ElapseToDue

\* a tab with the content script, over page loads; the time jumps from one
\* due timer to the next
SpecHighlight == HighlightInit /\ [][HighlightNext]_vars

MaxPasses == 8

SettleVocabularies == {<<>>, <<<<"a">>>>, <<<<"a">>, <<"b">>>>}

SettleInit ==
  \E words \in SettleVocabularies, saved \in BOOLEAN, nodes \in Pages :
    ContentInit(StoreOf(words, saved, FALSE), nodes)

\* the debounce timer fires, as long as the passes are counted
SettlePass ==
  /\ obs.passes < MaxPasses
  /\ DebouncedPass

SettleNext ==
  \/ Initialize
  \/ SettlePass
  \/ \E node \in PageNodes : PageChange(node)
  \/ WordTimerFires
  \/ StatsTimerFires
  \/ ElapseToDue

\* SettlePass can be taken
PassDue == obs.passes < MaxPasses /\ Running /\ content.highlightTimeout = 0

\* Initialize can be taken
InitializeDue == Running /\ ~env.started

\* a page that changes MaxChanges times and a vocabulary that stays as it
\* is in the Store: after that the only DOM changes are the script's. A
\* timer that is due fires and the script's start is not put off for ever:
\* weak fairness of every step but the page's, for SettlePass and
\* Initialize with the enabling condition written out
SpecSettle ==
  /\ SettleInit
  /\ [][SettleNext]_vars
  /\ WF_vars(WordTimerFires)
  /\ WF_vars(StatsTimerFires)
  /\ WF_vars(ElapseToDue)
  /\ ([]<>~PassDue \/ []<><<SettlePass>>_vars)
  /\ ([]<>~InitializeDue \/ []<><<Initialize>>_vars)

\* words and phrases of which one begins with another
PatternWords == {<<"a">>, <<"b">>, <<"a", " ", "b">>, <<"a", " ", "b", " ", "a">>}

\* the vocabularies of up to three of them, in every order
PatternVocabularies ==
  {v \in UNION {[1..n -> PatternWords] : n \in 1..3} :
     \A i, j \in 1..Len(v) : v[i] = v[j] => i = j}

PatternTexts ==
  {<<"a", " ", "b">>, <<"A", " ", "B", " ", "a">>,
   <<"b", " ", "a", " ", "b">>, <<"a", "b", " ", "a">>}

PatternInit ==
  \E words \in PatternVocabularies, text \in PatternTexts :
    ContentInit(StoreOf(words, FALSE, FALSE), <<TextNode(text, "body")>>)

PatternNext ==
  \/ Initialize
  \/ WordTimerFires
  \/ StatsTimerFires
  \/ ElapseToDue
  \/ BeforeUnload

\* a page of one text node is opened with a vocabulary in some order
SpecPattern == PatternInit /\ [][PatternNext]_vars

\* the pages and the Store of the tab whose flushes are followed
BatchNodes ==
  {TextNode(<<"a">>, "body"), TextNode(<<"A", " ", "b">>, "body"),
   TextNode(<<"a", "b">>, "body")}

BatchPages == UNION {[1..n -> BatchNodes] : n \in 1..MaxNodes}

BatchInit ==
  \E nodes \in BatchPages :
    ContentInit(StoreOf(<<<<"a">>, <<"b">>>>, FALSE, FALSE), nodes)

BatchNext ==
  \/ Initialize
  \/ DebouncedPass
  \/ \E selectionText \in Selections : ContextMenuAdd(selectionText)
  \/ NotificationRemoved
  \/ \E readingMode \in BOOLEAN : SettingsUpdated(readingMode)
  \/ \E node \in BatchNodes : PageChange(node)
  \/ WordTimerFires
  \/ StatsTimerFires
  \/ BeforeUnload
  \/ Deliver
  \/ Elapse(1)

\* one page load of a tab in reading mode, the time in steps of 500 ms,
\* with the background worker receiving the flush messages
SpecBatch == BatchInit /\ [][BatchNext]_vars

\* the places a page has text in
Contexts == {"body", "situ", "situ p", "script p"} \cup SkippedTags

SkipNodes == {TextNode(<<"a">>, ctx) : ctx \in Contexts}

SkipPages == UNION {[1..n -> SkipNodes] : n \in 1..MaxNodes}

SkipInit ==
  \E nodes \in SkipPages :
    ContentInit(StoreOf(<<<<"a">>>>, FALSE, FALSE), nodes)

SkipNext ==
  \/ Initialize
  \/ DebouncedPass
  \/ \E node \in SkipNodes : PageChange(node)
  \/ WordTimerFires
  \/ StatsTimerFires
  \/ ElapseToDue
  \/ BeforeUnload

\* a page with text in each kind of place is opened in reading mode
SpecSkip == SkipInit /\ [][SkipNext]_vars

\* the text the page of the followed tab holds and gets
FollowNodes == {TextNode(<<"a">>, "body"), TextNode(<<"b">>, "body")}

FollowInit ==
  \E words \in Vocabularies, saved \in BOOLEAN :
    ContentInit(StoreOf(words, saved, FALSE), <<TextNode(<<"a">>, "body")>>)

FollowNext ==
  \/ Initialize
  \/ DebouncedPass
  \/ ContextMenuAdd(<<"b">>)
  \/ NotificationRemoved
  \/ \E readingMode \in BOOLEAN : SettingsUpdated(readingMode)
  \/ \E node \in FollowNodes : PageChange(node)
  \/ WordTimerFires
  \/ StatsTimerFires
  \/ ElapseToDue
  \/ BeforeUnload

\* DebouncedPass can be taken
DebounceDue == Running /\ content.highlightTimeout = 0

\* a tab whose page changes and that gets a message, with the time going
\* on: a timer that is armed becomes due and a timer that is due fires
\* (weak fairness, for DebouncedPass with the enabling condition written
\* out); the page's changes, the messages and the unload may not come
SpecFollow ==
  /\ FollowInit
  /\ [][FollowNext]_vars
  /\ WF_vars(WordTimerFires)
  /\ WF_vars(StatsTimerFires)
  /\ WF_vars(ElapseToDue)
  /\ ([]<>~DebounceDue \/ []<><<DebouncedPass>>_vars)

\* ------------------------------- the background worker, a full vocabulary

MaxLimitReq == 2

DigitChars == <<"0", "1", "2", "3", "4", "5", "6", "7", "8", "9">>

\* the n-th of a thousand words, none equal to another
WordOfNumber(n) ==
  <<DigitChars[((n \div 100) % 10) + 1], DigitChars[((n \div 10) % 10) + 1],
    DigitChars[(n % 10) + 1]>>

\* how many words the Store holds at the start: up to two below the limit
LimitSizes == (MAX_VOCABULARY_SIZE - 2)..MAX_VOCABULARY_SIZE

LimitWords == {<<"a">>, <<"b">>, WordOfNumber(0)}

LimitRequests == [action : {"addWord"}, word : LimitWords, id : {0}, url : {0}]

LimitInit ==
  \E size \in LimitSizes :
    /\ storage = StoreOf([n \in 1..size |-> WordOfNumber(n - 1)], FALSE, FALSE)
    /\ nextId = size + 1
    /\ handlers = <<>>
    /\ today = 1
    /\ tabMessages = <<>>
    /\ ai = InitialAI
    /\ NoUi
    /\ NoContent

LimitNext ==
  \/ \E msg \in LimitRequests : Len(handlers) < MaxLimitReq /\ Receive(msg)
  \/ \E i \in 1..Len(handlers) :
       \/ VocabularyStep(i)
       \/ GetStatsStep(i)
       \/ SetStatsStep(i)
       \/ Respond(i)

\* the background worker with a vocabulary at or just below the limit,
\* receiving addWord requests
SpecLimit == LimitInit /\ [][LimitNext]_vars

\* -------------------------------- the background worker, recently seen

MaxRecentReq == 4

MaxRecentUrl == 4

\* the pages the word is seen on
RecentUrls == 1..MaxRecentUrl

RecentRequests ==
  [action : {"addRecentlySeen"}, word : {<<"a">>}, id : {0}, url : RecentUrls]

RecentNext ==
  \/ \E msg \in RecentRequests : Len(handlers) < MaxRecentReq /\ Receive(msg)
  \/ \E i \in 1..Len(handlers) :
       \/ VocabularyStep(i)
       \/ Respond(i)

\* the background worker with two words in the Store, receiving
\* addRecentlySeen requests for the first
SpecRecent == UsageInit /\ [][RecentNext]_vars

\* ----------------------------------------------------------- enrichment

MaxEnrichReq == 3

\* what enrichWord returns: the fields filled from the prompts' answers,
\* or left empty when the prompts failed
Enrichments ==
  {NoWordData,
   [definition |-> "text", examples |-> <<"text">>, synonyms |-> <<"text">>]}

\* StorageManager.addWord(wordData) up to its first await
StartAddWord(h, st) ==
  [h EXCEPT !.pc = "vocabulary", !.vocabulary = GetVocabulary(st)]

\* contextMenus.onClicked with a selection: wordProcessing is sent and
\* the sentence context is asked of the tab
MenuClick(selectionText) ==
  /\ selectionText # <<>>
  /\ handlers' =
       Append(handlers,
              [Invoke([action |-> "addWord", word |-> Trim(selectionText),
                       id |-> 0, url |-> 0], storage)
                 EXCEPT !.pc = "context", !.vocabulary = <<>>,
                        !.surface = "menu",
                        !.notified = <<"wordProcessing">>])
  /\ UNCHANGED <<storage, nextId, today, tabMessages>>
  /\ UNCHANGED <<contentVars, ai, uiVars>>

\* the tab answers getSentenceContext (or the catch supplies null) and
\* checkAvailability is called
ContextStep(i) ==
  /\ handlers[i].pc = "context"
  /\ handlers' = [handlers EXCEPT ![i].pc = "availability"]
  /\ UNCHANGED <<storage, nextId, today, tabMessages>>
  /\ UNCHANGED <<contentVars, ai, uiVars>>

\* the popup's addWord with a word in the input: checkAIAvailability is
\* sent to the background worker
PopupAddWord(word) ==
  /\ Trim(word) # <<>>
  /\ handlers' =
       Append(handlers,
              [Invoke([action |-> "addWord", word |-> Trim(word),
                       id |-> 0, url |-> 0], storage)
                 EXCEPT !.pc = "checkAI", !.vocabulary = <<>>,
                        !.surface = "popup"])
  /\ UNCHANGED <<storage, nextId, today, tabMessages>>
  /\ UNCHANGED <<contentVars, ai, uiVars>>

\* case 'checkAIAvailability' answers { success: true, available }: the
\* popup sends enrichWord when available, addWord with { word } when not
CheckAIStep(i) ==
  /\ handlers[i].pc = "checkAI"
  /\ \E available \in {CheckAvailability(ai.languageModel)} :
       /\ ai' = [ai EXCEPT !.isAvailable = available]
       /\ handlers' =
            [handlers EXCEPT
               ![i] = IF available THEN [@ EXCEPT !.pc = "availability"]
                      ELSE StartAddWord([@ EXCEPT !.checked = TRUE,
                                                  !.available = FALSE],
                                        storage)]
  /\ UNCHANGED <<storage, nextId, today, tabMessages>>
  /\ UNCHANGED <<contentVars, uiVars>>

\* checkAvailability returns to case 'enrichWord' or to the context menu
\* handler: enrichWord starts its four prompts (the context menu handler
\* reads the settings first), or the case answers 'AI not available', or
\* the word is added as it is
AvailabilityStep(i) ==
  /\ handlers[i].pc = "availability"
  /\ \E available \in {CheckAvailability(ai.languageModel)} :
     \E h \in {[handlers[i] EXCEPT !.checked = TRUE,
                                  !.available = available]} :
       IF available /\ h.surface = "menu"
       THEN /\ handlers' = [handlers EXCEPT ![i] = [h EXCEPT !.pc = "getSettings"]]
            /\ ai' = [ai EXCEPT !.isAvailable = TRUE]
       ELSE IF available
       THEN /\ Len(ai.prompts) + 4 <= MaxPrompts
            /\ handlers' =
                 [handlers EXCEPT
                    ![i] = [h EXCEPT !.pc = "enriching",
                                     !.prompts = Len(ai.prompts) + 1 ..
                                                 Len(ai.prompts) + 4]]
            /\ ai' = [StartPrompt(StartPrompt(StartPrompt(StartPrompt(ai))))
                        EXCEPT !.isAvailable = TRUE]
       ELSE /\ handlers' =
                 [handlers EXCEPT
                    ![i] = IF h.surface = "message"
                           THEN [h EXCEPT !.pc = "respond",
                                          !.result = "AI not available"]
                           ELSE StartAddWord(h, storage)]
            /\ ai' = [ai EXCEPT !.isAvailable = FALSE]
  /\ UNCHANGED <<storage, nextId, today, tabMessages>>
  /\ UNCHANGED <<contentVars, uiVars>>

\* the context menu handler after getSettings: enrichWord starts its four
\* prompts
MenuSettingsStep(i) ==
  /\ handlers[i].pc = "getSettings"
  /\ Len(ai.prompts) + 4 <= MaxPrompts
  /\ handlers' = [handlers EXCEPT ![i].pc = "enriching",
                                  ![i].prompts = Len(ai.prompts) + 1 ..
                                                 Len(ai.prompts) + 4]
  /\ ai' = StartPrompt(StartPrompt(StartPrompt(StartPrompt(ai))))
  /\ UNCHANGED <<storage, nextId, today, tabMessages>>
  /\ UNCHANGED <<contentVars, uiVars>>

\* Promise.all in enrichWord resolves: case 'enrichWord' answers
\* { success: true, data }, the popup and the context menu handler merge the
\* data into wordData and add the word
EnrichedStep(i, data) ==
  /\ handlers[i].pc = "enriching"
  /\ \A p \in handlers[i].prompts : ai.prompts[p].pc = "done"
  /\ handlers' =
       [handlers EXCEPT
          ![i] = IF @.surface = "message"
                 THEN [@ EXCEPT !.pc = "respond", !.result = "success",
                                !.wordData = data]
                 ELSE StartAddWord([@ EXCEPT !.wordData = data], storage)]
  /\ UNCHANGED <<storage, nextId, today, tabMessages>>
  /\ UNCHANGED <<contentVars, ai, uiVars>>

\* the context menu handler after addWord: wordAdded for success,
\* wordExists for 'Word already exists', nothing for any other result
MenuNotify(i) ==
  /\ handlers[i].pc = "respond"
  /\ handlers[i].surface = "menu"
  /\ handlers' =
       [handlers EXCEPT
          ![i] = Returned([@ EXCEPT !.notified =
                     IF handlers[i].result = "success"
                     THEN Append(@, "wordAdded")
                     ELSE IF handlers[i].result = "Word already exists"
                     THEN Append(@, "wordExists")
                     ELSE @])]
  /\ UNCHANGED <<storage, nextId, today, tabMessages>>
  /\ UNCHANGED <<contentVars, ai, uiVars>>

\* the browser's answer changes: the model is downloaded, removed, ...;
\* a LanguageModel global does not appear or disappear
ModelChanges(languageModel) ==
  /\ ai.languageModel # "undefined"
  /\ languageModel \notin {"undefined", ai.languageModel}
  /\ ai' = [ai EXCEPT !.languageModel = languageModel]
  /\ UNCHANGED <<routerVars, contentVars, uiVars>>

EnrichWords == {<<"a">>, <<"b">>}

EnrichRequests ==
  [action : {"enrichWord"}, word : {<<"a">>}, id : {0}, url : {0}]

EnrichInit ==
  /\ storage = EmptyStorage
  /\ handlers = <<>>
  /\ nextId = 1
  /\ today = 1
  /\ tabMessages = <<>>
  /\ ai \in {[InitialAI EXCEPT !.languageModel = m] : m \in ModelStates}
  /\ NoUi
  /\ NoContent

\* no request has come from this surface yet
Unused(surface) ==
  \A i \in 1..Len(handlers) : handlers[i].surface # surface

\* one enrichWord request, one context menu click and one add in the popup,
\* in any order, each made when the one before has ended
EnrichNext ==
  \/ /\ Len(handlers) < MaxEnrichReq
     /\ Idle
     /\ \/ \E msg \in EnrichRequests : Unused("message") /\ Receive(msg)
        \/ \E word \in EnrichWords :
             \/ Unused("menu") /\ MenuClick(word)
             \/ Unused("popup") /\ PopupAddWord(word)
  \/ \E i \in 1..Len(handlers) :
       \/ ContextStep(i) \/ CheckAIStep(i) \/ AvailabilityStep(i)
       \/ MenuSettingsStep(i)
       \/ \E data \in Enrichments : EnrichedStep(i, data)
       \/ VocabularyStep(i) \/ GetStatsStep(i) \/ SetStatsStep(i)
       \/ Respond(i) \/ MenuNotify(i)
  \/ \E p \in 1..Len(ai.prompts) :
       CreateResolves(p) \/ CreateRejects(p) \/ PromptSettles(p)
  \/ \E languageModel \in ModelStates : ModelChanges(languageModel)

SpecEnrich == EnrichInit /\ [][EnrichNext]_vars

\* ------------------------ the background worker, adds from the context menu

MaxMenuReq == 2

\* how many words the Store holds at the start: one, or as many as fit
MenuSizes == {1, MAX_VOCABULARY_SIZE}

\* what the context menu is used on: a word of the Store and a new one
MenuSelections == {WordOfNumber(0), <<"a">>}

\* a browser without the model, and a Store with room or without
MenuInit ==
  \E size \in MenuSizes :
    /\ storage = StoreOf([n \in 1..size |-> WordOfNumber(n - 1)], FALSE, FALSE)
    /\ nextId = size + 1
    /\ handlers = <<>>
    /\ today = 1
    /\ tabMessages = <<>>
    /\ ai = [InitialAI EXCEPT !.languageModel = "unavailable"]
    /\ NoUi
    /\ NoContent

MenuNext ==
  \/ \E selectionText \in MenuSelections :
       Len(handlers) < MaxMenuReq /\ MenuClick(selectionText)
  \/ \E i \in 1..Len(handlers) :
       \/ ContextStep(i)
       \/ AvailabilityStep(i)
       \/ VocabularyStep(i)
       \/ SetVocabularyFails(i)
       \/ GetStatsStep(i)
       \/ SetStatsStep(i)
       \/ SetStatsFails(i)
       \/ MenuNotify(i)

\* the background worker serving context menu clicks, with a chrome.storage
\* whose set calls may reject
SpecMenu == MenuInit /\ [][MenuNext]_vars

\* --------------------------------------- the content script, the sentence

\* if (fullText.length < 100 ...)
MinContextLength == 100

\* Math.max(0, wordIndex - 50)
WindowBefore == 50

\* Math.min(fullText.length, wordIndex + word.length + 100)
WindowAfter == 100

\* fullText.substring(0, 200)
HeadLength == 200

Max(a, b) == IF a > b THEN a ELSE b

Min(a, b) == IF a < b THEN a ELSE b

\* [.!?]
SentenceEnd == {".", "!", "?"}

\* the text the sentence is looked for in: the node's textContent, its
\* parent's when that is shorter than 100, the grandparent's when that is
\* still shorter; chain holds the textContent of the node and of the
\* ancestors it has
FullText(chain) ==
  With(IF Len(chain[1]) < MinContextLength /\ Len(chain) >= 2
          /\ chain[2] # <<>>
       THEN chain[2] ELSE chain[1],
       LAMBDA fullText :
         IF Len(fullText) < MinContextLength /\ Len(chain) >= 3
            /\ chain[3] # <<>>
         THEN chain[3] ELSE fullText)

\* the first position from i on whose character is (or is not) one of .!?,
\* Len(text) + 1 when there is none
NextPosition(text, i, end) ==
  Least({k \in i..Len(text) : (text[k] \in SentenceEnd) = end}
          \cup {Max(i, Len(text) + 1)})

\* text.match(/[^.!?]+[.!?]+/g) from position i on: each match is a
\* longest run of other characters with the run of .!? after it
RECURSIVE Sentences(_, _)
Sentences(text, i) ==
  With(NextPosition(text, i, FALSE),
       LAMBDA from :
         With(NextPosition(text, from, TRUE),
              LAMBDA end :
                IF end > Len(text) THEN <<>>
                ELSE With(NextPosition(text, end, FALSE),
                          LAMBDA next :
                            <<SubSeq(text, from, next - 1)>>
                              \o Sentences(text, next))))

\* the positions (from 0) at which w stands in s
Occurrences(s, w) ==
  {k \in 0..(Len(s) - Len(w)) : SubSeq(s, k + 1, k + Len(w)) = w}

\* s.includes(w)
Includes(s, w) == Occurrences(s, w) # {}

\* s.indexOf(w)
IndexOf(s, w) ==
  IF Occurrences(s, w) = {} THEN -1 ELSE Least(Occurrences(s, w))

\* the part of extractSentenceFromNode after the loop over the sentences
ChunkAround(fullText, word) ==
  With(IndexOf(ToLowerCase(fullText), ToLowerCase(word)),
       LAMBDA wordIndex :
         IF wordIndex # -1
         THEN Trim(SubSeq(fullText, Max(0, wordIndex - WindowBefore) + 1,
                          Min(Len(fullText),
                              wordIndex + Len(word) + WindowAfter)))
         ELSE Trim(SubSeq(fullText, 1, Min(Len(fullText), HeadLength))))

\* extractSentenceFromNode
ExtractSentenceFromNode(chain, word) ==
  With(FullText(chain),
       LAMBDA fullText :
         With(Sentences(fullText, 1),
              LAMBDA matched :
                With(IF matched = <<>> THEN <<fullText>> ELSE matched,
                     LAMBDA sentences :
                       With({i \in 1..Len(sentences) :
                               Includes(ToLowerCase(sentences[i]),
                                        ToLowerCase(word))},
                            LAMBDA hits :
                              IF hits # {} THEN Trim(sentences[Least(hits)])
                              ELSE ChunkAround(fullText, word)))))

\* createHighlightElement calls extractSentenceFromNode(textNode, word)
ExtractCall ==
  /\ ~extract.called
  /\ extract' = [extract EXCEPT
                   !.called = TRUE,
                   !.result = ExtractSentenceFromNode(extract.textContent,
                                                     extract.word)]
  /\ UNCHANGED <<routerVars, contentVars, ai, popup, writing>>

\* text without a sentence end
Filler(n) == [i \in 1..n |-> "x"]

\* what stands before or after a node in its parent, and before or after
\* the parent in the grandparent
SentencePieces ==
  {<<>>, <<"b", ".", " ">>, <<" ", "b", "!">>, Filler(60), Filler(160)}

\* the text nodes a marker is made in, and the words matched in them
SentenceNodes == {<<"a">>, <<"A", " ", "b">>, <<"b", ".", " ", "a">>}

SentenceWords == {<<"a">>, <<"A">>, <<"b">>}

\* the textContent of a node, of its parent and of its grandparent
SentenceChains ==
  {<<node>> : node \in SentenceNodes}
  \cup {<<node, b1 \o node \o a1>> :
          node \in SentenceNodes, b1 \in SentencePieces,
          a1 \in SentencePieces}
  \cup {<<node, b1 \o node \o a1, b2 \o b1 \o node \o a1 \o a2>> :
          node \in SentenceNodes, b1 \in SentencePieces,
          a1 \in SentencePieces, b2 \in SentencePieces,
          a2 \in SentencePieces}

\* a word of the vocabulary has been matched in a text node of the page
SentenceInit ==
  /\ storage = EmptyStorage
  /\ handlers = <<>>
  /\ nextId = 1
  /\ today = 1
  /\ tabMessages = <<>>
  /\ ai = InitialAI
  /\ NoContent
  /\ popup = InitialPopup
  /\ writing = InitialWriting
  /\ \E chain \in SentenceChains, word \in SentenceWords :
       /\ Includes(chain[1], word)
       /\ extract = [NoExtract EXCEPT !.textContent = chain, !.word = word]

SentenceNext == ExtractCall

SpecSentence == SentenceInit /\ [][SentenceNext]_vars

\* ------------------------------------------------------- the prompt popup

MaxSubmits == 3

\* checkAvailability() of popup.js, called when the popup opens: the submit
\* button is enabled for 'available' and disabled in every other branch
PopupCheckAvailability(languageModel) ==
  /\ ~popup.checked
  /\ popup' = [popup EXCEPT !.checked = TRUE,
                            !.disabled = (languageModel # "available")]
  /\ UNCHANGED <<routerVars, contentVars, ai, extract, writing>>

\* handleSubmit up to its first await: an empty prompt and a submit while
\* isProcessing return at once; otherwise isProcessing is set, the button
\* disabled and LanguageModel.create() called (session.prompt() when a
\* session is there)
HandleSubmit(prompt) ==
  /\ popup' =
       IF Trim(prompt) = <<>>
       THEN [popup EXCEPT !.runs = Append(@, [pc |-> "done",
                                              outcome |-> "empty"])]
       ELSE IF popup.isProcessing
       THEN [popup EXCEPT !.runs = Append(@, [pc |-> "done",
                                              outcome |-> "busy"])]
       ELSE [popup EXCEPT
               !.isProcessing = TRUE, !.disabled = TRUE,
               !.runs = Append(@, [pc |-> IF popup.session = NoSession
                                          THEN "create" ELSE "prompt",
                                   outcome |-> ""])]
  /\ UNCHANGED <<routerVars, contentVars, ai, extract, writing>>

\* the finally block of handleSubmit when there is no session to destroy
FinallyWithoutSession(p) ==
  [p EXCEPT !.isProcessing = FALSE, !.disabled = FALSE]

\* LanguageModel.create() resolves and session.prompt(prompt) is called,
\* or it rejects: catch, then finally with session still null
PopupCreateSettles(i, resolves) ==
  /\ popup.runs[i].pc = "create"
  /\ popup' =
       IF resolves
       THEN [popup EXCEPT !.session = popup.created + 1, !.created = @ + 1,
                          !.runs[i].pc = "prompt"]
       ELSE FinallyWithoutSession(
              [popup EXCEPT !.runs[i] = [pc |-> "done",
                                         outcome |-> "error"]])
  /\ UNCHANGED <<routerVars, contentVars, ai, extract, writing>>

\* session.prompt() resolves (the response is shown) or rejects (catch);
\* finally: the session is there and session.destroy() is awaited
PopupPromptSettles(i, resolves) ==
  /\ popup.runs[i].pc = "prompt"
  /\ popup' = [popup EXCEPT
                 !.runs[i] = [pc |-> IF popup.session # NoSession
                                     THEN "destroy" ELSE "done",
                              outcome |-> IF resolves THEN "response"
                                          ELSE "error"],
                 !.isProcessing = IF popup.session # NoSession THEN @
                                  ELSE FALSE,
                 !.disabled = IF popup.session # NoSession THEN @ ELSE FALSE]
  /\ UNCHANGED <<routerVars, contentVars, ai, extract, writing>>

\* session.destroy() returns: session = null; isProcessing = false; the
\* button is enabled. Or it throws: the rest of the finally block is not run
PopupDestroySettles(i, returns) ==
  /\ popup.runs[i].pc = "destroy"
  /\ popup' =
       IF returns
       THEN [popup EXCEPT !.session = NoSession, !.isProcessing = FALSE,
                          !.disabled = FALSE, !.runs[i].pc = "done"]
       ELSE [popup EXCEPT !.runs[i] = [pc |-> "done", outcome |-> "threw"]]
  /\ UNCHANGED <<routerVars, contentVars, ai, extract, writing>>

\* what is in the prompt input when the user submits
PopupPrompts == {<<>>, <<" ">>, <<"a">>}

\* the popup is opened
PopupInit ==
  /\ storage = EmptyStorage
  /\ handlers = <<>>
  /\ nextId = 1
  /\ today = 1
  /\ tabMessages = <<>>
  /\ ai = InitialAI
  /\ NoContent
  /\ NoUi

PopupNext ==
  \/ \E languageModel \in ModelStates :
       PopupCheckAvailability(languageModel)
  \/ \E prompt \in PopupPrompts :
       Len(popup.runs) < MaxSubmits /\ HandleSubmit(prompt)
  \/ \E i \in 1..Len(popup.runs), settled \in BOOLEAN :
       \/ PopupCreateSettles(i, settled)
       \/ PopupPromptSettles(i, settled)
       \/ PopupDestroySettles(i, settled)

\* the prompt popup with a user who clicks the button or presses
\* Ctrl+Enter at any time
SpecPopup == PopupInit /\ [][PopupNext]_vars

\* ------------------------------------- the content script, writing mode

MaxFields == 3

MaxStarts == 2

MaxMutations == 2

\* the elements a page has for input; the last is one the selector
\* 'textarea, input[type="text"], [contenteditable="true"]' leaves out
FieldKinds == {"textarea", "text", "contenteditable", "password"}

\* document.querySelectorAll(...) finds the element
IsTextField(field) == field.kind \in {"textarea", "text", "contenteditable"}

\* a field as the page makes it
NewField(kind) == [kind |-> kind, attached |-> FALSE, assistants |-> 0]

\* attachWritingAssistant: the attribute is set, a button and the listeners
\* are made and writingAssistants.set(field, button)
AttachWritingAssistant(field) ==
  [field EXCEPT !.attached = TRUE, !.assistants = @ + 1]

\* attachToTextFields without the test of the attribute
AttachToTextFieldsAgain(fields) ==
  [i \in 1..Len(fields) |->
     IF IsTextField(fields[i]) THEN AttachWritingAssistant(fields[i])
     ELSE fields[i]]

\* attachToTextFields: every field the selector finds that has no
\* data-situ-attached attribute gets an assistant
AttachToTextFields(fields) ==
  [i \in 1..Len(fields) |->
     IF IsTextField(fields[i]) /\ ~fields[i].attached
     THEN AttachWritingAssistant(fields[i]) ELSE fields[i]]

\* the callbacks of the observers observeTextFields has registered, one
\* after the other
RECURSIVE ObserveTextFields(_, _)
ObserveTextFields(observers, fields) ==
  IF observers = 0 THEN fields
  ELSE ObserveTextFields(observers - 1, AttachToTextFields(fields))

\* startWritingMode, called by initialize() when settings.writingMode is
\* set: at the script's start and again for every refreshVocabulary message
StartWritingMode ==
  /\ writing.starts < MaxStarts
  /\ GetSettings(storage).writingMode
  /\ writing' = [writing EXCEPT !.fields = AttachToTextFields(@),
                                !.observers = @ + 1, !.starts = @ + 1]
  /\ UNCHANGED <<routerVars, contentVars, ai, popup, extract>>

\* the page adds a field to its body
FieldAdded(kind) ==
  /\ Len(writing.fields) < MaxFields
  /\ writing' = [writing EXCEPT
                   !.fields = ObserveTextFields(writing.observers,
                                                Append(@, NewField(kind)))]
  /\ UNCHANGED <<routerVars, contentVars, ai, popup, extract>>

\* the page adds a copy of a field: cloneNode copies the attributes, the
\* listeners and the entry in writingAssistants stay with the original
FieldCloned(i) ==
  /\ Len(writing.fields) < MaxFields
  /\ writing' = [writing EXCEPT
                   !.fields = ObserveTextFields(
                                writing.observers,
                                Append(@, [writing.fields[i] EXCEPT
                                             !.assistants = 0]))]
  /\ UNCHANGED <<routerVars, contentVars, ai, popup, extract>>

\* any other change of the body's subtree: a node of the page, a marker,
\* the suggestion button put into the body
BodyMutation ==
  /\ writing.mutations < MaxMutations
  /\ writing' = [writing EXCEPT
                   !.fields = ObserveTextFields(writing.observers, @),
                   !.mutations = @ + 1]
  /\ UNCHANGED <<routerVars, contentVars, ai, popup, extract>>

\* a page is opened with writing mode saved as on (the default) or off
WritingInit ==
  /\ storage \in {EmptyStorage,
                   StorageSet(EmptyStorage, STORAGE_KEYS.SETTINGS,
                              [DEFAULT_SETTINGS EXCEPT
                                 !.writingMode = FALSE])}
  /\ handlers = <<>>
  /\ nextId = 1
  /\ today = 1
  /\ tabMessages = <<>>
  /\ ai = InitialAI
  /\ NoContent
  /\ NoUi

WritingNext ==
  \/ StartWritingMode
  \/ \E kind \in FieldKinds : FieldAdded(kind)
  \/ \E i \in 1..Len(writing.fields) : FieldCloned(i)
  \/ BodyMutation

\* the content script's writing mode on a page that adds fields
SpecWriting == WritingInit /\ [][WritingNext]_vars

\* ------------------------------------------------------------------ claims

StoredVocabulary == GetVocabulary(storage)

\* the flush messages of this page load, by accumulator
SessionMessages(action) ==
  SelectSeq(SubSeq(outbox, obs.base + 1, Len(outbox)),
            LAMBDA m : m.action = action)

RECURSIVE Concat(_)
Concat(msgs) ==
  IF msgs = <<>> THEN <<>> ELSE Head(msgs).updates \o Concat(Tail(msgs))

RECURSIVE SumWordsSeen(_)
SumWordsSeen(msgs) ==
  IF msgs = <<>> THEN 0 ELSE Head(msgs).wordsSeen + SumWordsSeen(Tail(msgs))

\* the message that carries the i-th queued event, given how many events
\* each message carries; Len(sizes) + 1 when it is still pending
RECURSIVE BatchOf(_, _)
BatchOf(i, sizes) ==
  IF sizes = <<>> \/ i <= Head(sizes) THEN 1
  ELSE 1 + BatchOf(i - Head(sizes), Tail(sizes))

WordSizes ==
  LET msgs == SessionMessages("batchUpdateWordTracking")
  IN [n \in 1..Len(msgs) |-> Len(msgs[n].updates)]

StatsSizes ==
  LET msgs == SessionMessages("batchUpdateStats")
  IN [n \in 1..Len(msgs) |-> msgs[n].wordsSeen]

RECURSIVE SumSeen(_)
SumSeen(vocabulary) ==
  IF vocabulary = <<>> THEN 0
  ELSE Head(vocabulary).seenCount + SumSeen(Tail(vocabulary))

Delivered == SubSeq(outbox, 1, delivered)

\* C1: every seen event of a flush message the background worker has
\* received and handled is in the Store: the items' seenCounts add up to
\* the events of the word-tracking messages, each event left a recentlySeen
\* entry, and the wordsSeen statistic is the sum of the stats messages
C1_FlushedEventsReachStore ==
  (\A i \in 1..Len(handlers) : handlers[i].pc = "done") =>
    /\ SumSeen(StoredVocabulary) = Len(Concat(Delivered))
    /\ GetStats(storage).wordsSeen = SumWordsSeen(Delivered)

LogKeys == {ToLowerCase(obs.log[i].word) : i \in 1..Len(obs.log)}

\* C2: in one session a word, compared in lower case, has one seen event
\* queued when a marker was made for it and none otherwise, however many
\* passes made markers for it; a session starts with nothing seen
C2_OneSeenEventPerWord ==
  /\ \A i, j \in 1..Len(obs.log) :
       ToLowerCase(obs.log[i].word) = ToLowerCase(obs.log[j].word) => i = j
  /\ LogKeys = obs.marked
  /\ content.seenWordsThisSession = obs.marked
  /\ obs.passes = 0 => obs.log = <<>>

\* two markers of one word on the page of a second session, one event
C2_Witness ==
  /\ env.session = 2
  /\ obs.base > 0
  /\ Len(obs.log) = 1
  /\ \E i, j \in 1..Len(page) :
       /\ i # j
       /\ page[i].kind = "mark" /\ page[j].kind = "mark"
       /\ page[i].dataWord = page[j].dataWord

\* C3: the events queued less than the quiet period after the one before
\* go out in the same flush message as it, in queue order for the word
\* tracking and as a count for the stats; no event is sent twice or left
\* out, and what is pending has its timer armed
C3_QuietEventsShareOneFlush ==
  /\ Concat(SessionMessages("batchUpdateWordTracking"))
       \o content.pendingWordUpdates
     = [i \in 1..Len(obs.log) |-> [word |-> obs.log[i].word]]
  /\ SumWordsSeen(SessionMessages("batchUpdateStats"))
       + content.pendingStatUpdates = Len(obs.log)
  /\ \A n \in 1..Len(WordSizes) : WordSizes[n] >= 1
  /\ \A n \in 1..Len(StatsSizes) : StatsSizes[n] >= 1
  /\ \A i \in 1..(Len(obs.log) - 1) :
       /\ obs.log[i + 1].gap < WordQuiet =>
            BatchOf(i, WordSizes) = BatchOf(i + 1, WordSizes)
       /\ obs.log[i + 1].gap < StatsQuiet =>
            BatchOf(i, StatsSizes) = BatchOf(i + 1, StatsSizes)
  /\ Running =>
       /\ content.pendingWordUpdates # <<>> =>
            content.wordUpdateTimeout # NoTimer
       /\ content.pendingStatUpdates > 0 =>
            content.statsUpdateTimeout # NoTimer

\* two events queued at different times within the quiet periods, flushed
\* by the timers: one word-tracking message and one stats message
C3_Witness ==
  /\ Running
  /\ Len(obs.log) = 2
  /\ obs.log[2].gap \in 1..(WordQuiet - 1)
  /\ WordSizes = <<2>>
  /\ StatsSizes = <<2>>

Pattern == CreateWordPattern(WordsOf(content.vocabulary))

\* C4: after a highlightVocabulary pass no text node outside the skipped
\* elements and the markers holds a whole-word occurrence of a vocabulary
\* word, and each marker's data-word is its text in lower case
C4_EveryOccurrenceMarked ==
  (obs.passes >= 1 /\ ~obs.dirty /\ content.vocabulary # <<>>) =>
    \A i \in 1..Len(page) :
      /\ Eligible(page[i]) => ~Test(page[i].text, 0, Pattern)
      /\ page[i].kind = "mark" => page[i].dataWord = ToLowerCase(page[i].text)

\* C5: a highlightVocabulary pass that follows another one, with the
\* vocabulary and the page as that one left them, changes neither the page
\* nor the markers and queues no seen event
C5_SecondPassChangesNothing ==
  [][(/\ obs.passes >= 1
      /\ ~obs.dirty
      /\ obs'.passes = obs.passes + 1
      /\ content'.vocabulary = content.vocabulary)
     => /\ page' = page
        /\ content'.highlightedElements = content.highlightedElements
        /\ content'.pendingWordUpdates = content.pendingWordUpdates
        /\ obs'.log = obs.log]_vars


StoredIds(st) == {GetVocabulary(st)[k].id : k \in 1..Len(GetVocabulary(st))}

\* an addWord invocation whose word, lower-cased, is the lower-cased word of
\* an item of the vocabulary it read, before and after it has decided
DuplicateAdd(h) ==
  /\ h.action = "addWord"
  /\ \/ /\ h.pc = "vocabulary"
        /\ \E k \in 1..Len(h.vocabulary) :
             ToLowerCase(h.vocabulary[k].word) = ToLowerCase(h.word)
     \/ h.pc = "respond" /\ h.result = "Word already exists"

\* C6: every step of an addWord invocation whose word matches, ignoring
\* case, an item of the vocabulary it read leaves chrome.storage.sync as it
\* was, and the invocation answers 'Word already exists'.
C6_DuplicateAddWritesNothing ==
  [][\A i \in 1..Len(handlers) :
       (DuplicateAdd(handlers[i]) /\ handlers'[i] # handlers[i])
       => /\ storage' = storage
          /\ handlers'[i].result = "Word already exists"
          /\ handlers'[i].applied = FALSE]_vars

C6_Witness ==
  \E i \in 1..Len(handlers) :
    /\ handlers[i].action = "addWord"
    /\ handlers[i].pc = "done"
    /\ handlers[i].result = "Word already exists"
    /\ handlers[i].responses = 1
    /\ Len(StoredVocabulary) = 1

\* C7: no two stored vocabulary items have words that are equal when
\* compared case-insensitively.
C7_WordsUnique ==
  \A i, j \in 1..Len(StoredVocabulary) :
    i # j => ToLowerCase(StoredVocabulary[i].word)
             # ToLowerCase(StoredVocabulary[j].word)

\* C8: an item that a successful, answered addWord stored leaves the stored
\* vocabulary only in a step of a deleteWord for its id or of clearAllData.
C8_StoredItemStays ==
  [][\A id \in StoredIds(storage) \ StoredIds(storage') :
       (\E a \in 1..Len(handlers) :
          /\ handlers[a].action = "addWord"
          /\ handlers[a].pc = "done"
          /\ handlers[a].result = "success"
          /\ handlers[a].newId = id)
       => \/ \E i \in 1..Len(handlers) :
               /\ handlers[i].action = "deleteWord"
               /\ handlers[i].id = id
               /\ handlers[i].pc = "vocabulary"
               /\ handlers'[i].pc # "vocabulary"
          \/ /\ Len(handlers') > Len(handlers)
             /\ handlers'[Len(handlers')].action = "clearAllData"]_vars

RECURSIVE SumCounts(_)
SumCounts(vocabulary) ==
  IF vocabulary = <<>> THEN 0
  ELSE Head(vocabulary).seenCount + Head(vocabulary).usedCount
       + SumCounts(Tail(vocabulary))

\* C9: once every one of the k increment requests for stored words has been
\* answered, the stored seen and used counts add up to k and so do the
\* stats totals wordsSeen + wordsUsed.
C9_EveryIncrementCounted ==
  (\A i \in 1..Len(handlers) : handlers[i].pc = "done")
  => /\ SumCounts(StoredVocabulary) = Len(handlers)
     /\ GetStats(storage).wordsSeen + GetStats(storage).wordsUsed
          = Len(handlers)

\* C10: handleMessage calls sendResponse at most once while it runs and
\* exactly once by the time it has returned.
C10_OneResponse ==
  \A i \in 1..Len(handlers) :
    /\ handlers[i].responses <= 1
    /\ handlers[i].pc = "done" => handlers[i].responses = 1

\* C11: a counting request during which a Store call failed is not
\* answered with success: true
C11_FailureIsReported ==
  \A i \in 1..Len(handlers) :
    (/\ handlers[i].pc = "done"
     /\ handlers[i].action \in CountingActions
     /\ handlers[i].failed)
    => handlers[i].result # "success"

\* C12: importing an exported object makes getVocabulary, getSettings and
\* getStats return what the object holds, and the object holds what they
\* returned when it was exported
C12_ImportReproducesExport ==
  \A i \in 1..Len(handlers) :
    (/\ handlers[i].pc = "respond"
     /\ handlers[i].action \in {"exportData", "importData"})
    => /\ GetVocabulary(storage) = handlers[i].data.vocabulary
       /\ GetSettings(storage) = handlers[i].data.settings
       /\ GetStats(storage) = handlers[i].data.stats

\* an export with a word, changed settings and counted statistics has been
\* imported into a cleared store
C12_Witness ==
  \E i \in 1..Len(handlers) :
    /\ handlers[i].pc = "respond"
    /\ handlers[i].action = "importData"
    /\ handlers[i].data.vocabulary # <<>>
    /\ handlers[i].data.stats # EmptyStats
    /\ \E j \in 1..(i - 1) : handlers[j].action = "clearAllData"

\* C13: a step that runs flushWordTrackingUpdates leaves pendingWordUpdates
\* empty, a step that runs flushStatsUpdates leaves
\* pendingStatUpdates.wordsSeen at 0, and after beforeunload, which runs
\* both, every seen event queued in the page load is in a message that
\* was sent
C13_FlushEmptiesAccumulators ==
  [][/\ (WordTimerFires \/ BeforeUnload) =>
          content'.pendingWordUpdates = <<>>
     /\ (StatsTimerFires \/ BeforeUnload) =>
          content'.pendingStatUpdates = 0
     /\ BeforeUnload =>
          /\ Concat(SessionMessages("batchUpdateWordTracking"))'
               = [i \in 1..Len(obs.log) |-> [word |-> obs.log[i].word]]
          /\ SumWordsSeen(SessionMessages("batchUpdateStats"))'
               = Len(obs.log)]_vars

\* the page was left less than the word quiet period after a seen event:
\* the timers were pending and beforeunload sent the events
C13_Witness ==
  /\ env.unloaded
  /\ obs.log # <<>>
  /\ obs.sinceLast < WordQuiet
  /\ WordSizes # <<>>
  /\ StatsSizes # <<>>
  /\ content.pendingWordUpdates = <<>>
  /\ content.pendingStatUpdates = 0

\* C14: once the page has stopped changing and the vocabulary is fixed,
\* the debounced passes come to an end: from some point on no
\* highlight pass is scheduled, and the passes stay below MaxPasses
C14_PassesEnd ==
  <>[](content.highlightTimeout = NoTimer /\ obs.passes < MaxPasses)

\* a pass made markers, the pass its changes set off ran, and nothing is
\* scheduled after it
C14_Witness ==
  /\ env.started
  /\ obs.passes >= 2
  /\ content.highlightedElements # {}
  /\ content.highlightTimeout = NoTimer

\* C15: every DOM change that the observers are notified of leaves one
\* pending highlight pass, due 500 ms after it, whatever was pending before
\* and however many observers reading mode has started; the pass runs when
\* the 500 ms are over, and when it changes nothing itself no other pass
\* is pending after it
C15_OnePassAfterBurst ==
  [][/\ (/\ content.observers > 0
          /\ ~env'.unloaded
          /\ (page' # page \/ content'.notification # content.notification))
         => content'.highlightTimeout = HighlightDebounce
     /\ DebouncedPass =>
          (/\ content.highlightTimeout = 0
           /\ obs'.passes = obs.passes + 1
           /\ (page' = page => content'.highlightTimeout = NoTimer))
     /\ content'.highlightTimeout \in {NoTimer, 0, HighlightDebounce}]_vars

\* reading mode was started twice, the page changed, and the one pass of
\* the change has run
C15_Witness ==
  /\ Running
  /\ content.observers >= 2
  /\ env.changes >= 1
  /\ ~obs.dirty
  /\ obs.passes >= 3
  /\ content.highlightTimeout = NoTimer

\* the index in the document's text at which node i of the page begins
RECURSIVE PositionOf(_)
PositionOf(i) == IF i <= 1 THEN 0 ELSE PositionOf(i - 1) + Len(page[i - 1].text)

\* C16: a marker wraps the longest vocabulary word that matches where the
\* marker begins, whatever the order of the vocabulary
C16_LongestWordWrapped ==
  \A i \in 1..Len(page) :
    page[i].kind = "mark" =>
      \A n \in 1..Len(content.vocabulary) :
        AltMatches(env.document[1].text, PositionOf(i),
                   content.vocabulary[n].word)
        => Len(content.vocabulary[n].word) <= Len(page[i].text)

\* the vocabulary lists a word before a phrase that begins with it, and
\* the marker wraps the phrase
C16_Witness ==
  /\ Len(content.vocabulary) >= 2
  /\ content.vocabulary[1].word = <<"a">>
  /\ \E i \in 1..Len(page) :
       /\ page[i].kind = "mark"
       /\ Len(page[i].text) >= 3
       /\ AltMatches(env.document[1].text, PositionOf(i), <<"a">>)

\* C17: AIHelper has created at most one language-model session, and every
\* prompt that has a session has that one
C17_OneSession ==
  /\ ai.created <= 1
  /\ \A i \in 1..Len(ai.prompts) :
       ai.prompts[i].session \in {NoSession, 1}

\* C18: a request with an action the switch has no case for is answered
\* once, with the error 'Unknown action', in the step that receives it; the
\* step leaves the Store as it is and the invocation does nothing after it
C18_UnknownActionAnswered ==
  [][/\ (/\ Len(handlers') = Len(handlers) + 1
          /\ handlers'[Len(handlers')].action \in UnknownActions)
         => /\ storage' = storage
            /\ handlers'[Len(handlers')].pc = "done"
            /\ handlers'[Len(handlers')].result = "Unknown action"
            /\ handlers'[Len(handlers')].responses = 1
     /\ \A i \in 1..Len(handlers) :
          handlers[i].action \in UnknownActions => handlers'[i] = handlers[i]]_vars

\* a request with an unknown action was answered while the Store held a
\* word
C18_Witness ==
  \E i \in 1..Len(handlers) :
    /\ handlers[i].action \in UnknownActions
    /\ handlers[i].result = "Unknown action"
    /\ GetVocabulary(storage) # <<>>

\* C19: an addWord request whose word is empty or only white space is not
\* answered with success, and no stored item has an empty word
C19_BlankWordRejected ==
  /\ \A i \in 1..Len(handlers) :
       (/\ handlers[i].action = "addWord"
        /\ handlers[i].pc = "respond"
        /\ Trim(handlers[i].word) = <<>>)
       => handlers[i].result # "success"
  /\ \A n \in 1..Len(StoredVocabulary) : StoredVocabulary[n].word # <<>>

UrlsOf(recentlySeen) == [n \in 1..Len(recentlySeen) |-> recentlySeen[n].url]

\* C21: every stored item's recentlySeen list has at most 3 entries, all
\* of different urls; an addRecentlySeen call with a url of the list it
\* read stores a list with the same urls in the same places, a call with a
\* new url stores the url in front of the first entries of the list it read
C21_RecentlySeenBounded ==
  [][/\ \A n \in 1..Len(GetVocabulary(storage')) :
          /\ Len(GetVocabulary(storage')[n].recentlySeen) <= 3
          /\ \A p, q \in 1..Len(GetVocabulary(storage')[n].recentlySeen) :
               GetVocabulary(storage')[n].recentlySeen[p].url
                 = GetVocabulary(storage')[n].recentlySeen[q].url => p = q
     /\ \A i \in 1..Len(handlers) :
          (/\ handlers[i].pc = "vocabulary"
           /\ handlers'[i].pc # "vocabulary"
           /\ handlers[i].action = "addRecentlySeen"
           /\ FindWord(handlers[i].vocabulary, handlers[i].word) # 0)
          => \E old \in {UrlsOf(handlers[i].vocabulary[
                            FindWord(handlers[i].vocabulary,
                                     handlers[i].word)].recentlySeen)},
                new \in {UrlsOf(GetVocabulary(storage')[
                            FindWord(handlers[i].vocabulary,
                                     handlers[i].word)].recentlySeen)} :
               IF \E p \in 1..Len(old) : old[p] = handlers[i].url
               THEN new = old
               ELSE /\ new[1] = handlers[i].url
                    /\ Len(new) = IF Len(old) < 3 THEN Len(old) + 1 ELSE 3
                    /\ \A p \in 2..Len(new) : new[p] = old[p - 1]]_vars

\* the fourth call, after three that were answered, has stored its url in
\* front of a list of three
C21_Witness ==
  /\ Len(handlers) = MaxRecentReq
  /\ \A i \in 1..(MaxRecentReq - 1) :
       handlers[i].pc = "done" /\ handlers[i].applied
  /\ handlers[MaxRecentReq].pc = "respond"
  /\ Len(StoredVocabulary[1].recentlySeen) = 3
  /\ StoredVocabulary[1].recentlySeen[1].url = handlers[MaxRecentReq].url

\* the sum of a per-day counter over all dates
RECURSIVE SumDaily(_, _)
SumDaily(dailyStats, key) ==
  IF DOMAIN dailyStats = {} THEN 0
  ELSE With(Least(DOMAIN dailyStats),
            LAMBDA d : dailyStats[d][key]
                       + SumDaily([e \in DOMAIN dailyStats \ {d} |->
                                     dailyStats[e]], key))

\* C22: each running total of the stored stats is the sum of its per-day
\* counter over all dates, and no step makes a per-day counter smaller
C22_TotalsMatchDays ==
  [][/\ GetStats(storage').wordsSeen
          = SumDaily(GetStats(storage').dailyStats, "seen")
     /\ GetStats(storage').wordsUsed
          = SumDaily(GetStats(storage').dailyStats, "used")
     /\ GetStats(storage').wordsAdded
          = SumDaily(GetStats(storage').dailyStats, "added")
     /\ \A d \in DOMAIN GetStats(storage).dailyStats :
          /\ d \in DOMAIN GetStats(storage').dailyStats
          /\ \A key \in {"seen", "used", "added"} :
               GetStats(storage').dailyStats[d][key]
                 >= GetStats(storage).dailyStats[d][key]]_vars
\* C23: while the browser's model is not 'available' (LanguageModel
\* undefined, any other availability value, or availability() rejecting),
\* checkAvailability returns false; case 'enrichWord' then answers
\* 'AI not available' and starts no prompt and creates no session; the
\* context menu handler and the popup then go on to addWord with wordData
\* that has no enrichment, the item addWord writes has an empty definition,
\* no examples and no synonyms, and the add ends with success
C23_UnavailableDegrades ==
  [][\A i \in 1..Len(handlers) :
       /\ ( /\ handlers[i].pc \in {"checkAI", "availability"}
            /\ handlers'[i] # handlers[i]
            /\ ai.languageModel # "available" )
          => /\ handlers'[i].checked /\ ~handlers'[i].available
             /\ ~ai'.isAvailable
             /\ ai'.prompts = ai.prompts
             /\ ai'.session = ai.session /\ ai'.created = ai.created
             /\ handlers'[i].prompts = {}
             /\ IF handlers[i].surface = "message"
                THEN /\ handlers'[i].pc = "respond"
                     /\ handlers'[i].result = "AI not available"
                ELSE /\ handlers'[i].pc = "vocabulary"
                     /\ handlers'[i].wordData = NoWordData
       /\ ( /\ handlers[i].pc = "vocabulary"
            /\ handlers'[i] # handlers[i]
            /\ handlers[i].surface \in {"menu", "popup"}
            /\ handlers[i].checked /\ ~handlers[i].available
            /\ FindWord(handlers[i].vocabulary, handlers[i].word) = 0 )
          => /\ handlers'[i].applied
             /\ \E k \in 1..Len(StoredVocabulary') :
                  /\ StoredVocabulary'[k].id = handlers'[i].newId
                  /\ StoredVocabulary'[k].word = handlers[i].word
                  /\ StoredVocabulary'[k].definition = ""
                  /\ StoredVocabulary'[k].examples = <<>>
                  /\ StoredVocabulary'[k].synonyms = <<>>
       /\ ( /\ handlers[i].pc = "respond"
            /\ handlers'[i].pc = "done"
            /\ handlers[i].surface \in {"menu", "popup"}
            /\ handlers[i].checked /\ ~handlers[i].available
            /\ handlers[i].applied )
          => handlers'[i].result = "success"]_vars

\* an enrichWord request was answered 'AI not available', and a context
\* menu add and a popup add made without the model have ended with success
C23_Witness ==
  /\ \E i \in 1..Len(handlers) :
       /\ handlers[i].action = "enrichWord" /\ handlers[i].pc = "done"
       /\ handlers[i].result = "AI not available"
  /\ \A surface \in {"menu", "popup"} :
       \E i \in 1..Len(handlers) :
         /\ handlers[i].surface = surface /\ handlers[i].pc = "done"
         /\ handlers[i].checked /\ ~handlers[i].available
         /\ handlers[i].result = "success"
         /\ \E k \in 1..Len(StoredVocabulary) :
              /\ StoredVocabulary[k].id = handlers[i].newId
              /\ StoredVocabulary[k].definition = ""
\* the text lies in the subtree of a script, style, noscript or iframe
InSkippedSubtree(ctx) == ctx \in SkippedTags \cup {"script p"}

\* C24: no marker stands in the subtree of a script, style, noscript or
\* iframe element, at any depth, nor below an element with a situ- class
C24_NoMarkerInSkipped ==
  \A i \in 1..Len(page) :
    page[i].kind = "mark"
      => ~InSkippedSubtree(page[i].ctx) /\ ~SituAbove(page[i].ctx)
\* C25: when the page has changed since the last highlight pass while the
\* script runs with reading mode on and a vocabulary that is not empty, a
\* highlight pass follows (or the page is unloaded or reading mode is
\* switched off first)
C25_MutationFollowedByPass ==
  ( /\ Running /\ env.started
    /\ content.readingMode /\ content.vocabulary # <<>>
    /\ obs.dirty )
  ~> (~obs.dirty \/ ~Running \/ ~content.readingMode)
\* C26: once settingsUpdated has switched reading mode off, and until it
\* is switched on again, the page holds no marker: the markers were
\* replaced by text and no pass creates one again
C26_NoMarkerWhenOff ==
  (env.started /\ ~content.readingMode)
    => \A i \in 1..Len(page) : page[i].kind # "mark"
\* the notifications that end what wordProcessing began
TerminalNotifications == {"wordAdded", "wordExists", "wordError"}

\* C27: a context menu handler that has sent wordProcessing and has ended
\* has sent exactly one of wordAdded, wordExists and wordError after it,
\* whatever addWord returned
C27_OneTerminalNotification ==
  \A i \in 1..Len(handlers) :
    (handlers[i].surface = "menu" /\ handlers[i].pc = "done")
      => /\ Len(handlers[i].notified) = 2
         /\ handlers[i].notified[1] = "wordProcessing"
         /\ handlers[i].notified[2] \in TerminalNotifications
\* the sentences of the text that end with .!? and hold the word
SentencesWith(text, word) ==
  With(Sentences(text, 1),
       LAMBDA all :
         {i \in 1..Len(all) :
            Includes(ToLowerCase(all[i]), ToLowerCase(word))})

\* C28: extractSentenceFromNode returns the first sentence ending with .!?
\* that holds the word, whatever its case; when there is none it returns a
\* piece of the text of bounded width around the word; what it returns
\* holds the word
C28_SentenceOrWindow ==
  extract.called =>
    With(FullText(extract.textContent),
         LAMBDA fullText :
           /\ Includes(ToLowerCase(extract.result),
                       ToLowerCase(extract.word))
           /\ IF SentencesWith(fullText, extract.word) # {}
              THEN extract.result =
                     Trim(Sentences(fullText, 1)[
                            Least(SentencesWith(fullText, extract.word))])
              ELSE /\ Includes(fullText, extract.result)
                   /\ Len(extract.result)
                        <= WindowBefore + Len(extract.word) + WindowAfter)
\* the handleSubmit runs that have called the model and not ended
InFlight(p) ==
  {i \in 1..Len(p.runs) : p.runs[i].pc \in {"create", "prompt", "destroy"}}

\* C29: at most one handleSubmit run is at the model at a time, and when a
\* run ends, with a response, with a failed prompt or create, or with a
\* failed destroy, isProcessing is false, the submit button is enabled and
\* session is null
C29_OneRunThenReset ==
  [][/\ Cardinality(InFlight(popup')) <= 1
     /\ \A i \in InFlight(popup) :
          popup'.runs[i].pc = "done"
            => /\ ~popup'.isProcessing
               /\ ~popup'.disabled
               /\ popup'.session = NoSession]_vars
\* C30: no field ever has more than one writing assistant, and a step
\* gives no assistant to a field that has the data-situ-attached attribute
C30_OneAssistantPerField ==
  [][\A i \in 1..Len(writing'.fields) :
       /\ writing'.fields[i].assistants <= 1
       /\ (i <= Len(writing.fields) /\ writing.fields[i].attached)
            => writing'.fields[i].assistants
                 = writing.fields[i].assistants]_vars

\* writing mode was started twice, the body has changed since, and every
\* text field of a full page has its one assistant but for a copy that
\* came with the attribute
C30_Witness ==
  /\ writing.starts = MaxStarts
  /\ writing.mutations = MaxMutations
  /\ Len(writing.fields) = MaxFields
  /\ \E i \in 1..Len(writing.fields) : writing.fields[i].assistants = 1
  /\ \E i \in 1..Len(writing.fields) :
       /\ writing.fields[i].attached
       /\ writing.fields[i].assistants = 0

====
